---- MODULE Spec2Model ----
(***************************************************************************)
(* State-machine model of the Blender animation generator scripts.         *)
(*                                                                         *)
(* Units.  Locations are integers counting 1/60 of a Blender unit, so the  *)
(* divisions of the source (jitter / 30, travel distance / 20) stay exact  *)
(* for template coordinates that are whole Blender units.  Frames are      *)
(* whole frames; the real-valued result of get_offset_for_slice is kept to *)
(* the nearest frame.  Angles are whole degrees; math.radians(a) is held   *)
(* as the degree measure a of the angle it denotes.                        *)
(*                                                                         *)
(* Heap.  bpy.data.objects is the sequence `objects`, bpy.data.actions the *)
(* sequence `actions`; an object or action is named by its index, 0 is     *)
(* None.  The generator of the random module is the variable `rng`.        *)
(***************************************************************************)
EXTENDS Integers, Sequences, FiniteSets, TLC

VARIABLES
    script,               \* which script's main() this run executes
    cfg,                  \* the configuration constants of the script
    objects,              \* bpy.data.objects
    actions,              \* bpy.data.actions
    rng,                  \* state of the random module's generator
    frame_current,        \* bpy.context.scene.frame_current
    pc,                   \* position of main()
    err,                  \* the exception that ended the run, "" if none
    sample,               \* main: loop variable
    step_offsets,         \* main: step_offsets
    source_particles,     \* main: source_particles
    source_empty,         \* main: source_empty
    new_slice_particles,  \* main: new_slice_particles
    empty,                \* main: empty
    object_list,          \* main: object_list
    link_index,           \* main: index of the final enumerate(object_list)
    saved                 \* harness: the actions before a shift is applied

vars == <<script, cfg, objects, actions, rng, frame_current, pc, err, sample,
          step_offsets, source_particles, source_empty, new_slice_particles,
          empty, object_list, link_index, saved>>

-----------------------------------------------------------------------------
(* Bounds of the model.                                                    *)

MaxParticles == 2
MaxSamples == 6
MaxSeed == 2
MaxVertices == 3

-----------------------------------------------------------------------------
(* Small helpers.                                                          *)

Range(s) == {s[i] : i \in 1..Len(s)}

Abs(n) == IF n < 0 THEN -n ELSE n

\* Python's int(): truncation toward zero of the quotient n / d, d > 0.
IntTrunc(n, d) == IF n >= 0 THEN n \div d ELSE -((-n) \div d)

-----------------------------------------------------------------------------
(* random.randrange: one step of the module's generator.  The generator    *)
(* is a deterministic function of its hidden state; the state is advanced  *)
(* by every draw and the draw is spread over [lo, hi).                     *)

NextRng(r) == (r * 9 + 7) % 64

randrange(r, lo, hi) == lo + ((r * (hi - lo)) \div 64)

-----------------------------------------------------------------------------
(* Objects, actions, curves, keyframe points.                              *)

EMITTER_NAME == "Emitter"
PARTICLE_NAME == "Particle"
EMPTY_NAME == "ParticleEmpty.000"

Identity == <<0, 0, 0>>

\* A rotation is kept as its 3x3 matrix, a triple of rows.  The cosines and
\* sines are exact at the multiples of 90 degrees, the only angles for
\* which a conversion between representations is computed.
NoRotation == << <<1, 0, 0>>, <<0, 1, 0>>, <<0, 0, 1>> >>

Cos(a) == CASE a % 360 = 0 -> 1 [] a % 360 = 90 -> 0
            [] a % 360 = 180 -> -1 [] a % 360 = 270 -> 0

Sin(a) == CASE a % 360 = 0 -> 0 [] a % 360 = 90 -> 1
            [] a % 360 = 180 -> 0 [] a % 360 = 270 -> -1

\* The rotation about one coordinate axis (1 = X, 2 = Y, 3 = Z).
AxisRotation(axis, a) ==
    CASE axis = 1 -> << <<1, 0, 0>>, <<0, Cos(a), -Sin(a)>>, <<0, Sin(a), Cos(a)>> >>
      [] axis = 2 -> << <<Cos(a), 0, Sin(a)>>, <<0, 1, 0>>, <<-Sin(a), 0, Cos(a)>> >>
      [] axis = 3 -> << <<Cos(a), -Sin(a), 0>>, <<Sin(a), Cos(a), 0>>, <<0, 0, 1>> >>

\* The matrix product m * n: n is applied first.
MatMul(m, n) ==
    [i \in 1..3 |->
        [j \in 1..3 |-> m[i][1] * n[1][j] + m[i][2] * n[2][j] + m[i][3] * n[3][j]]]

\* The axes of an Euler order, in the order the host applies them.
OrderAxes(order) ==
    CASE order = "XYZ" -> <<1, 2, 3>> [] order = "XZY" -> <<1, 3, 2>>
      [] order = "YXZ" -> <<2, 1, 3>> [] order = "YZX" -> <<2, 3, 1>>
      [] order = "ZXY" -> <<3, 1, 2>> [] order = "ZYX" -> <<3, 2, 1>>

\* mathutils.Euler(angles, order): the angles are always stored as (x, y, z);
\* the host turns about the parent's axes, the first axis of the order
\* first, so that the matrix of XYZ is Rz * Ry * Rx.
Euler(angles, order) == [angles |-> angles, order |-> order]

EulerRotation(euler) ==
    LET axes == OrderAxes(euler.order)
    IN MatMul(AxisRotation(axes[3], euler.angles[axes[3]]),
              MatMul(AxisRotation(axes[2], euler.angles[axes[2]]),
                     AxisRotation(axes[1], euler.angles[axes[1]])))

\* Euler.to_quaternion(): a quaternion is kept as the rotation it encodes
\* (q and -q are not told apart), and so is an axis with an angle.
to_quaternion(euler) == [rotation |-> EulerRotation(euler)]

\* Quaternion.to_euler(order): one triple of that order with the
\* quaternion's rotation.
RightAngles == {-90, 0, 90, 180}

to_euler(quaternion, order) ==
    CHOOSE angles \in RightAngles \X RightAngles \X RightAngles :
        EulerRotation(Euler(angles, order)) = quaternion.rotation

\* bpy.data.objects.new(name, ...): a fresh, unlinked object.  `copy_of`,
\* `sample`, `role` and `jitter` are bookkeeping of the model (where the
\* object came from, and the start jitter drawn for it), not fields of
\* the Blender object.
NewObject(name) ==
    [name |-> name, location |-> <<0, 0, 0>>, action |-> 0, parent |-> 0,
     matrix_world |-> Identity, matrix_parent_inverse |-> Identity,
     rotation_mode |-> "XYZ", rotation_euler |-> <<0, 0, 0>>,
     rotation_quaternion |-> [rotation |-> NoRotation],
     rotation_axis_angle |-> [rotation |-> NoRotation],
     scale |-> <<60, 60, 60>>,
     props |-> <<>>, vertices |-> <<>>,
     linked |-> FALSE, hide_viewport |-> FALSE, selected |-> FALSE,
     copy_of |-> 0, sample |-> -1, role |-> "source", jitter |-> <<>>]

\* keyframe_points.add(1) followed by the assignment of co: the new point's
\* handles and interpolation are whatever the host gives a fresh point.
NewPoint(frame, value) ==
    [co |-> <<frame, value>>, handle_left |-> <<0, 0>>,
     handle_right |-> <<0, 0>>, interpolation |-> "HOST_DEFAULT"]

NewCurve(data_path, index) ==
    [data_path |-> data_path, array_index |-> index, keyframe_points |-> <<>>]

ORB_VISIBILITY == "[\"Orb Visibility\"]"
CUBE_VISIBILITY == "[\"Cube Visibility\"]"
CUBE_BRIGHTNESS == "[\"Cube Brightness\"]"
MATERIAL_VARIABLE == "[\"visibility\"]"

\* The working state threaded through the helper functions of a script.
Heap == [objects |-> objects, actions |-> actions, rng |-> rng,
         frame_current |-> frame_current, err |-> ""]

Failed(h, e) == IF h.err = "" THEN [h EXCEPT !.err = e] ELSE h

-----------------------------------------------------------------------------
(* GenerateAnimatedHaloRing.py: low-level keyframe insertion.              *)

AddKeyframe(curve, frame, value) ==
    [curve EXCEPT !.keyframe_points = Append(@, NewPoint(frame, value))]

\* insert_location_keyframe(object, frame, location)
insert_location_keyframe(h, o, frame, location) ==
    LET h1 == IF h.objects[o].action = 0
              THEN [h EXCEPT !.actions = Append(@, [fcurves |-> <<>>]),
                             !.objects[o].action = Len(h.actions) + 1]
              ELSE h
        a == h1.objects[o].action
        fc == h1.actions[a].fcurves
        fc1 == IF Len(fc) = 0
               THEN <<NewCurve("location", 0), NewCurve("location", 1),
                      NewCurve("location", 2)>>
               ELSE fc
    IN IF Len(fc1) < 3
       THEN Failed(h1, "IndexError")
       ELSE [h1 EXCEPT !.actions[a].fcurves =
                [i \in 1..Len(fc1) |->
                    IF i <= 3 THEN AddKeyframe(fc1[i], frame, location[i])
                    ELSE fc1[i]]]

-----------------------------------------------------------------------------
(* GenerateAnimatedHaloRing.py: utility functions.                         *)

\* A copy made after the particle was given an action of its own, which
\* the copy then shares with it.
duplicate_particle_SharingAction(h, particle) ==
    LET h1 == IF h.objects[particle].action = 0
              THEN [h EXCEPT !.actions = Append(@, [fcurves |-> <<>>]),
                             !.objects[particle].action = Len(h.actions) + 1]
              ELSE h
    IN [h1 EXCEPT !.objects = Append(@, [h1.objects[particle] EXCEPT
                                            !.linked = FALSE,
                                            !.copy_of = particle,
                                            !.role = "primary"])]

\* duplicate_particle(particle): the copy is appended to bpy.data.objects
\* and is the last object of the returned heap.
duplicate_particle(h, particle) ==
    [h EXCEPT !.objects = Append(@, [h.objects[particle] EXCEPT
                                        !.linked = FALSE,
                                        !.copy_of = particle,
                                        !.role = "primary"])]

\* First loop of create_basic_motion_keyframes: the final location.
RECURSIVE SetFinalLocationKeyframe(_, _, _)
SetFinalLocationKeyframe(h, slice, i) ==
    IF i > Len(slice) \/ h.err # "" THEN h
    ELSE SetFinalLocationKeyframe(
            insert_location_keyframe(h, slice[i],
                cfg.RING_ANIMATION_START + cfg.ASSEMBLY_ANIMATION_LENGTH,
                h.objects[slice[i]].location),
            slice, i + 1)

\* x_pos, y_pos, z_pos of create_basic_motion_keyframes for one particle;
\* variation is the triple of randrange draws (not yet divided by 30).
StartPosition(location, emitter, variation) ==
    << ((location[1] - emitter[1]) * cfg.ASSEMBLY_TRAVEL_DISTANCE)
           + emitter[1] + 2 * variation[1],
       ((location[2] - emitter[2]) * cfg.ASSEMBLY_TRAVEL_DISTANCE)
           + emitter[2] + 2 * variation[2],
       IntTrunc((location[3] - emitter[3]) * cfg.ASSEMBLY_TRAVEL_DISTANCE, 20)
           + emitter[3] + 2 * variation[3] >>

\* n / d of the source, with the exception a zero divisor raises.
Divided(n, d) ==
    IF d = 0 THEN [err |-> "ZeroDivisionError", value |-> 0]
    ELSE [err |-> "", value |-> n \div d]

\* The sign taken without the test of the distance.
PositionSignUnguarded(distance) == Divided(distance, Abs(distance))

\* x_pos_sign, y_pos_sign, z_pos_sign of create_basic_motion_keyframes.
PositionSign(distance) ==
    IF distance # 0 THEN Divided(distance, Abs(distance))
    ELSE [err |-> "", value |-> 1]

\* The three signs for a location and the emitter's.
PositionSigns(location, emitter) ==
    [a \in 1..3 |-> PositionSign(location[a] - emitter[a])]

\* Second loop of create_basic_motion_keyframes: the start location.
RECURSIVE SetStartLocationKeyframe(_, _, _, _)
SetStartLocationKeyframe(h, slice, source_emitter, i) ==
    IF i > Len(slice) \/ h.err # "" THEN h
    ELSE IF \E a \in 1..3 :
              PositionSigns(h.objects[slice[i]].location,
                            h.objects[source_emitter].location)[a].err # ""
    THEN Failed(h, "ZeroDivisionError")
    ELSE
      LET random_range == cfg.ASSEMBLY_START_VARIATION * 30
          r1 == h.rng
          r2 == NextRng(r1)
          r3 == NextRng(r2)
          variation == IF random_range # 0
                       THEN << randrange(r1, -random_range, random_range),
                               randrange(r2, -random_range, random_range),
                               randrange(r3, -random_range, random_range) >>
                       ELSE <<0, 0, 0>>
          h1 == IF random_range # 0 THEN [h EXCEPT !.rng = NextRng(r3)] ELSE h
          pos == StartPosition(h.objects[slice[i]].location,
                               h.objects[source_emitter].location, variation)
      IN SetStartLocationKeyframe(
            insert_location_keyframe(h1, slice[i],
                                     cfg.RING_ANIMATION_START, pos),
            slice, source_emitter, i + 1)

\* create_basic_motion_keyframes(slice, source_emitter)
create_basic_motion_keyframes(h, slice, source_emitter) ==
    SetStartLocationKeyframe(SetFinalLocationKeyframe(h, slice, 1),
                             slice, source_emitter, 1)

\* range_start and range_end of randomize_flight_pattern (range = .2).
FlightRangeStart ==
    IntTrunc(10 * cfg.RING_ANIMATION_START
             + 4 * cfg.ASSEMBLY_ANIMATION_LENGTH, 10)

FlightRangeEnd ==
    IntTrunc(10 * (cfg.RING_ANIMATION_START + cfg.ASSEMBLY_ANIMATION_LENGTH)
             - 4 * cfg.ASSEMBLY_ANIMATION_LENGTH, 10)

\* randomize_flight_pattern(slice), PARTICLE_DRIFT_BEFORE_ASSEMBLY = True
RECURSIVE randomize_flight_pattern_from(_, _, _)
randomize_flight_pattern_from(h, slice, i) ==
    IF i > Len(slice) \/ h.err # "" THEN h
    ELSE IF FlightRangeEnd <= FlightRangeStart
    THEN Failed(h, "ValueError")
    ELSE
      LET random_range == cfg.ASSEMBLY_FLIGHT_VARIATION * 30
          half == IntTrunc(random_range, 2)
          r0 == h.rng
          frame == randrange(r0, FlightRangeStart, FlightRangeEnd)
          r1 == NextRng(r0)
          r2 == NextRng(r1)
          r3 == NextRng(r2)
          location == h.objects[slice[i]].location
      IN IF random_range # 0 /\ half = 0
         THEN Failed([h EXCEPT !.rng = r1], "ValueError")
         ELSE
           LET variation ==
                   IF random_range # 0
                   THEN << randrange(r1, -half, half),
                           randrange(r2, -half, half),
                           randrange(r3, -random_range, random_range) >>
                   ELSE <<0, 0, 0>>
               h1 == [h EXCEPT !.rng = IF random_range # 0
                                       THEN NextRng(r3) ELSE r1]
           IN randomize_flight_pattern_from(
                 insert_location_keyframe(h1, slice[i], frame,
                     << location[1] + 2 * variation[1],
                        location[2] + 2 * variation[2],
                        location[3] + 2 * variation[3] >>),
                 slice, i + 1)

randomize_flight_pattern(h, slice) == randomize_flight_pattern_from(h, slice, 1)

\* The data paths randomize_keyframe_delay and offset_animations act on.
IsAnimatedPath(data_path) ==
    data_path \in {"location", ORB_VISIBILITY, CUBE_VISIBILITY, CUBE_BRIGHTNESS}

\* "Advance By Offset" with the handles placed from the advanced co.x
\* instead of from their own frames.
AdvancePointHandlesFromCo(point, delta) ==
    [point EXCEPT !.co[1] = @ + delta,
                  !.handle_left[1] = point.co[1] + delta + delta,
                  !.handle_right[1] = point.co[1] + delta + delta]

\* "Advance By Offset": co.x, handle_left.x and handle_right.x of one point.
AdvancePoint(point, delta) ==
    [point EXCEPT !.co[1] = @ + delta,
                  !.handle_left[1] = @ + delta,
                  !.handle_right[1] = @ + delta]

\* The loop over the curves of one action and over the points of each.
AdvanceCurves(fcurves, delta) ==
    [c \in 1..Len(fcurves) |->
        IF IsAnimatedPath(fcurves[c].data_path)
        THEN [fcurves[c] EXCEPT !.keyframe_points =
                [k \in 1..Len(fcurves[c].keyframe_points) |->
                    AdvancePoint(fcurves[c].keyframe_points[k], delta)]]
        ELSE fcurves[c]]

\* particle.animation_data.action.fcurves raises when there is no action.
HasAction(h, o) == h.objects[o].action # 0

\* randomize_keyframe_delay(slice)
RECURSIVE randomize_keyframe_delay_from(_, _, _)
randomize_keyframe_delay_from(h, slice, i) ==
    IF i > Len(slice) \/ h.err # "" THEN h
    ELSE IF ~HasAction(h, slice[i]) THEN Failed(h, "AttributeError")
    ELSE
      LET a == h.objects[slice[i]].action
          delay == IF cfg.ASSEMBLY_RANDOM_VARIATION > 0
                   THEN randrange(h.rng, 0, cfg.ASSEMBLY_RANDOM_VARIATION)
                   ELSE 0
          h1 == IF cfg.ASSEMBLY_RANDOM_VARIATION > 0
                THEN [h EXCEPT !.rng = NextRng(h.rng)] ELSE h
      IN randomize_keyframe_delay_from(
            [h1 EXCEPT !.actions[a].fcurves = AdvanceCurves(@, delay)],
            slice, i + 1)

randomize_keyframe_delay(h, slice) == randomize_keyframe_delay_from(h, slice, 1)

\* An offset is the value of get_offset_for_slice, a float, or a complex
\* number when the base of the power is negative.
Real(n) == [real |-> TRUE, value |-> n]
Complex == [real |-> FALSE, value |-> 0]

\* Whether the action has a point offset_animations would assign to.
HasAnimatedPoint(fcurves) ==
    \E c \in 1..Len(fcurves) :
        /\ IsAnimatedPath(fcurves[c].data_path)
        /\ Len(fcurves[c].keyframe_points) > 0

\* offset_animations(slice, offset): the assignment of a complex number to
\* co.x raises TypeError.
RECURSIVE offset_animations_from(_, _, _, _)
offset_animations_from(h, slice, offset, i) ==
    IF i > Len(slice) \/ h.err # "" THEN h
    ELSE IF ~HasAction(h, slice[i]) THEN Failed(h, "AttributeError")
    ELSE
      LET a == h.objects[slice[i]].action
      IN IF ~offset.real
         THEN IF HasAnimatedPoint(h.actions[a].fcurves)
              THEN Failed(h, "TypeError")
              ELSE offset_animations_from(h, slice, offset, i + 1)
         ELSE offset_animations_from(
                [h EXCEPT !.actions[a].fcurves = AdvanceCurves(@, offset.value)],
                slice, offset, i + 1)

offset_animations(h, slice, offset) == offset_animations_from(h, slice, offset, 1)

\* ease_keyframes(slice)
RECURSIVE ease_keyframes_from(_, _, _)
ease_keyframes_from(h, slice, i) ==
    IF i > Len(slice) \/ h.err # "" THEN h
    ELSE IF ~HasAction(h, slice[i]) THEN Failed(h, "AttributeError")
    ELSE
      LET a == h.objects[slice[i]].action
          fc == h.actions[a].fcurves
      IN ease_keyframes_from(
            [h EXCEPT !.actions[a].fcurves =
                [c \in 1..Len(fc) |->
                    IF fc[c].data_path = "location"
                    THEN [fc[c] EXCEPT !.keyframe_points =
                            [k \in 1..Len(fc[c].keyframe_points) |->
                                [fc[c].keyframe_points[k] EXCEPT
                                    !.interpolation = "BEZIER"]]]
                    ELSE fc[c]]],
            slice, i + 1)

ease_keyframes(h, slice) == ease_keyframes_from(h, slice, 1)

\* The collapse applied to both handles of the first point.
CollapseBothHandles(curve) ==
    [curve EXCEPT !.keyframe_points[1].handle_right =
                      curve.keyframe_points[1].co,
                  !.keyframe_points[1].handle_left =
                      curve.keyframe_points[1].co]

\* curve.keyframe_points[0].handle_right = curve.keyframe_points[0].co
CollapseRightHandle(curve) ==
    [curve EXCEPT !.keyframe_points[1].handle_right =
                      curve.keyframe_points[1].co]

\* remove_easing_on_start_frame(slice)
RECURSIVE remove_easing_on_start_frame_from(_, _, _)
remove_easing_on_start_frame_from(h, slice, i) ==
    IF i > Len(slice) \/ h.err # "" THEN h
    ELSE IF ~HasAction(h, slice[i]) THEN Failed(h, "AttributeError")
    ELSE
      LET a == h.objects[slice[i]].action
          fc == h.actions[a].fcurves
      IN IF \E c \in 1..Len(fc) : /\ fc[c].data_path = "location"
                                  /\ Len(fc[c].keyframe_points) = 0
         THEN Failed(h, "IndexError")
         ELSE remove_easing_on_start_frame_from(
                [h EXCEPT !.actions[a].fcurves =
                    [c \in 1..Len(fc) |->
                        IF fc[c].data_path = "location"
                        THEN CollapseRightHandle(fc[c])
                        ELSE fc[c]]],
                slice, i + 1)

remove_easing_on_start_frame(h, slice) ==
    remove_easing_on_start_frame_from(h, slice, 1)

\* matrix.inverted() of the matrix of a rotation about one axis set.
Inverted(m) == <<-m[1], -m[2], -m[3]>>

\* duplicate_slice without action.copy(): the duplicate keeps the action of
\* the particle it copies.
DuplicateSliceParticleSharingAction(h, particle, new_empty) ==
    [h EXCEPT !.objects = Append(@, [h.objects[particle] EXCEPT
                                        !.linked = FALSE,
                                        !.copy_of = particle,
                                        !.role = "mirror",
                                        !.parent = new_empty,
                                        !.matrix_parent_inverse =
                                            Inverted(h.objects[new_empty].matrix_world)])]

\* The body of the loop of duplicate_slice for one particle; `new_empty` is
\* the duplicate empty.
DuplicateSliceParticle(h, particle, new_empty) ==
    LET action_copy == h.actions[h.objects[particle].action]
        new_particle == [h.objects[particle] EXCEPT
                            !.linked = FALSE,
                            !.copy_of = particle,
                            !.role = "mirror",
                            !.action = Len(h.actions) + 1,
                            !.parent = new_empty,
                            !.matrix_parent_inverse =
                                Inverted(h.objects[new_empty].matrix_world)]
    IN [h EXCEPT !.actions = Append(@, action_copy),
                 !.objects = Append(@, new_particle)]

RECURSIVE duplicate_slice_from(_, _, _, _)
duplicate_slice_from(h, slice, new_empty, i) ==
    IF i > Len(slice) \/ h.err # "" THEN h
    ELSE IF ~HasAction(h, slice[i]) THEN Failed(h, "AttributeError")
    ELSE duplicate_slice_from(DuplicateSliceParticle(h, slice[i], new_empty),
                              slice, new_empty, i + 1)

\* duplicate_slice(slice, source_empty): the duplicate empty is object
\* Len(h.objects) + 1 and the new particles follow it, in the slice's order.
duplicate_slice(h, slice, src_empty) ==
    duplicate_slice_from(
        [h EXCEPT !.objects = Append(@, [h.objects[src_empty] EXCEPT
                                            !.linked = FALSE,
                                            !.copy_of = src_empty,
                                            !.role = "mirror"])],
        slice, Len(h.objects) + 1, 1)

\* rotate_slice_by_angle with the Euler branch assigning the XYZ triple
\* whatever the order of the empty's rotation mode.
rotate_slice_by_angle_IgnoringOrder(h, e, angle_vector) ==
    LET mode == h.objects[e].rotation_mode
    IN IF mode = "QUATERNION"
       THEN [h EXCEPT !.objects[e].rotation_quaternion =
                          to_quaternion(Euler(angle_vector, "XYZ"))]
       ELSE IF mode = "AXIS_ANGLE"
       THEN [h EXCEPT !.objects[e].rotation_axis_angle =
                          to_quaternion(Euler(angle_vector, "XYZ"))]
       ELSE [h EXCEPT !.objects[e].rotation_euler = angle_vector]

\* rotate_slice_by_angle(empty, angle_vector): angle_vector is an XYZ Euler
\* triple.  The axis-angle branch stores the angle and the axis of the
\* quaternion, kept as the quaternion's rotation.
rotate_slice_by_angle(h, e, angle_vector) ==
    LET euler == Euler(angle_vector, "XYZ")
        mode == h.objects[e].rotation_mode
    IN IF mode = "QUATERNION"
       THEN [h EXCEPT !.objects[e].rotation_quaternion = to_quaternion(euler)]
       ELSE IF mode = "AXIS_ANGLE"
       THEN [h EXCEPT !.objects[e].rotation_axis_angle = to_quaternion(euler)]
       ELSE [h EXCEPT !.objects[e].rotation_euler =
                          IF euler.order = mode THEN euler.angles
                          ELSE to_euler(to_quaternion(euler), mode)]

\* hide_object(object)
hide_object(h, o) == [h EXCEPT !.objects[o].hide_viewport = TRUE]

\* get_offset_for_slice(angle): the fitted power function.  Its base
\* (4715661497503125 a + 4030738072695250) / (48868807743 - 201647250 a)
\* is negative for every angle above 48868807743 / 201647250 = 242.348,
\* where the power is a complex number.  The values are the formula's,
\* to the nearest frame, at the angles the bounded ring layouts produce.
get_offset_for_slice(angle) ==
    IF angle > 242 THEN Complex
    ELSE CASE angle = 0 -> Real(186)
           [] angle = 45 -> Real(1282)
           [] angle = 90 -> Real(1981)
           [] angle = 135 -> Real(2803)
           [] angle = 180 -> Real(4110)
           [] angle = 225 -> Real(8218)

\* offset - start_animation_length
Minus(offset, n) ==
    IF offset.real THEN Real(offset.value - n) ELSE offset

-----------------------------------------------------------------------------
(* The host's keyframing, as Halo3LoadingScreen.py uses it: the frame      *)
(* cursor, keyframe_insert at the cursor, and the evaluation of animation  *)
(* when the cursor moves.  Property values are in sixtieths, as locations. *)

\* A custom property of an object, particle[name]; props is a sequence of
\* <<name, value>> pairs.
HasProp(object, name) == \E i \in 1..Len(object.props) : object.props[i][1] = name

SetProp(object, name, value) ==
    IF HasProp(object, name)
    THEN [object EXCEPT
            !.props[CHOOSE i \in 1..Len(object.props) :
                        object.props[i][1] = name] = <<name, value>>]
    ELSE [object EXCEPT !.props = Append(@, <<name, value>>)]

\* A point keyframe_insert creates: the host computes its handles; they are
\* taken one frame either side of the point.
InsertedPoint(frame, value) ==
    [co |-> <<frame, value>>, handle_left |-> <<frame - 1, value>>,
     handle_right |-> <<frame + 1, value>>, interpolation |-> "HOST_DEFAULT"]

\* The host's insertion of a key: in frame order, replacing a key at the
\* same frame.
InsertKey(curve, frame, value) ==
    LET kp == curve.keyframe_points
        before == SelectSeq(kp, LAMBDA q : q.co[1] < frame)
        after == SelectSeq(kp, LAMBDA q : q.co[1] > frame)
    IN [curve EXCEPT !.keyframe_points =
            before \o <<InsertedPoint(frame, value)>> \o after]

\* The index of the curve of a data path and array index, 0 if none.
CurveIndex(fcurves, data_path, index) ==
    IF \E c \in 1..Len(fcurves) : /\ fcurves[c].data_path = data_path
                                  /\ fcurves[c].array_index = index
    THEN CHOOSE c \in 1..Len(fcurves) : /\ fcurves[c].data_path = data_path
                                        /\ fcurves[c].array_index = index
    ELSE 0

\* One channel of keyframe_insert: the curve is found or created, and the
\* key inserted at the cursor.
InsertChannelKey(fcurves, data_path, index, frame, value) ==
    LET c == CurveIndex(fcurves, data_path, index)
    IN IF c = 0
       THEN Append(fcurves, InsertKey(NewCurve(data_path, index), frame, value))
       ELSE [fcurves EXCEPT ![c] = InsertKey(@, frame, value)]

EnsureAction(h, o) ==
    IF h.objects[o].action = 0
    THEN [h EXCEPT !.actions = Append(@, [fcurves |-> <<>>]),
                   !.objects[o].action = Len(h.actions) + 1]
    ELSE h

\* object.keyframe_insert("location")
keyframe_insert_location(h, o) ==
    LET h1 == EnsureAction(h, o)
        a == h1.objects[o].action
        loc == h1.objects[o].location
        f == h1.frame_current
    IN [h1 EXCEPT !.actions[a].fcurves =
            InsertChannelKey(
                InsertChannelKey(
                    InsertChannelKey(@, "location", 0, f, loc[1]),
                    "location", 1, f, loc[2]),
                "location", 2, f, loc[3])]

\* The data path of a custom property: "[\"{0}\"]".format(name)
PropertyPath(name) == "[\"" \o name \o "\"]"

\* particle[name] = value; particle.keyframe_insert(data_path=...)
keyframe_insert_property(h, o, name, path, value) ==
    LET h1 == EnsureAction([h EXCEPT !.objects[o] = SetProp(@, name, value)], o)
        a == h1.objects[o].action
    IN [h1 EXCEPT !.actions[a].fcurves =
            InsertChannelKey(@, path, 0, h1.frame_current, value)]

\* The value of a curve at a frame: the first key's before it, the last
\* key's after it, and between two keys the straight line through them.
RECURSIVE EvaluateFrom(_, _, _)
EvaluateFrom(kp, frame, k) ==
    IF k = Len(kp) \/ frame >= kp[Len(kp)].co[1] THEN kp[Len(kp)].co[2]
    ELSE IF frame <= kp[k].co[1] THEN kp[k].co[2]
    ELSE IF frame < kp[k + 1].co[1]
    THEN LET f0 == kp[k].co[1]
             f1 == kp[k + 1].co[1]
             v0 == kp[k].co[2]
             v1 == kp[k + 1].co[2]
             n == (v1 - v0) * (frame - f0)
         IN v0 + (IF n >= 0 THEN n \div (f1 - f0) ELSE -((-n) \div (f1 - f0)))
    ELSE EvaluateFrom(kp, frame, k + 1)

Evaluate(curve, frame) == EvaluateFrom(curve.keyframe_points, frame, 1)

\* The animated value of one object at a frame: each curve with keys writes
\* the property it animates.
RECURSIVE ApplyCurves(_, _, _, _)
ApplyCurves(object, fcurves, frame, c) ==
    IF c > Len(fcurves) THEN object
    ELSE IF Len(fcurves[c].keyframe_points) = 0
    THEN ApplyCurves(object, fcurves, frame, c + 1)
    ELSE IF fcurves[c].data_path = "location"
    THEN ApplyCurves([object EXCEPT !.location[fcurves[c].array_index + 1] =
                                        Evaluate(fcurves[c], frame)],
                     fcurves, frame, c + 1)
    ELSE IF fcurves[c].data_path = "scale"
    THEN ApplyCurves([object EXCEPT !.scale[fcurves[c].array_index + 1] =
                                        Evaluate(fcurves[c], frame)],
                     fcurves, frame, c + 1)
    ELSE IF \E i \in 1..Len(object.props) :
                PropertyPath(object.props[i][1]) = fcurves[c].data_path
    THEN ApplyCurves(
            SetProp(object,
                    object.props[CHOOSE i \in 1..Len(object.props) :
                        PropertyPath(object.props[i][1]) = fcurves[c].data_path][1],
                    Evaluate(fcurves[c], frame)),
            fcurves, frame, c + 1)
    ELSE ApplyCurves(object, fcurves, frame, c + 1)

\* bpy.context.scene.frame_set(frame): the cursor moves and the animation
\* of every object the view layer shows is evaluated at the new frame.
frame_set(h, frame) ==
    [h EXCEPT !.frame_current = frame,
              !.objects =
                  [o \in 1..Len(h.objects) |->
                      IF /\ h.objects[o].linked
                         /\ ~h.objects[o].hide_viewport
                         /\ h.objects[o].action # 0
                      THEN ApplyCurves(h.objects[o],
                                       h.actions[h.objects[o].action].fcurves,
                                       frame, 1)
                      ELSE h.objects[o]] \o <<>>]


-----------------------------------------------------------------------------
(* The scenes and configurations the runs start from.                      *)

\* Locations of the selected template objects (whole Blender units, in
\* sixtieths); a scene holds the first P of them.
TemplateLocations ==
    << <<120, 0, 0>>, <<0, 180, 60>>, <<-60, -60, 120>>, <<60, 60, -60>> >>

EmitterLocations == { <<0, 0, 0>>, <<60, 0, -60>> }

\* The scene: the emitter and P templates, all linked and all selected; the
\* second template keeps the parent inverse of an earlier parenting.
Scene(emitter_location, P) ==
    [i \in 1..(P + 1) |->
        IF i = 1
        THEN [NewObject(EMITTER_NAME) EXCEPT !.location = emitter_location,
                                             !.linked = TRUE,
                                             !.selected = TRUE]
        ELSE [NewObject(PARTICLE_NAME) EXCEPT
                 !.location = TemplateLocations[i - 1],
                 !.matrix_parent_inverse =
                     IF i = 3 THEN <<0, 0, 90>> ELSE Identity,
                 !.linked = TRUE, !.selected = TRUE]]

\* ASSEMBLY_RANDOM_VARIATION, ASSEMBLY_START_VARIATION and
\* ASSEMBLY_FLIGHT_VARIATION as configured together.
RingVariations == { <<0, 0, 0>>, <<20, 2, 1>>, <<20, 0, 1>>, <<0, 2, 0>> }

RingLayouts == { 2, 4, 8 }

\* The configuration block of GenerateAnimatedHaloRing.py, with the source's
\* values except where a set of values is tried.
\* ASSEMBLY_ANIMATION_LENGTH: the source's value and short assemblies.
RingLengths == { 100, 4, 2, 1 }

RingConfigs ==
    { [ASSEMBLY_ANIMATION_LENGTH |-> length,
       ASSEMBLY_RANDOM_VARIATION |-> v[1],
       ASSEMBLY_TRAVEL_DISTANCE |-> 30,
       ASSEMBLY_START_VARIATION |-> v[2],
       ASSEMBLY_FLIGHT_VARIATION |-> v[3],
       RING_ANIMATION_START |-> 120,
       CUBE_VISIBILITY_TRANSITION_LENGTH |-> 20,
       RING_SLICES |-> slices,
       RING_SAMPLES |-> samples] :
      v \in RingVariations, slices \in RingLayouts, samples \in 1..MaxSamples,
      length \in RingLengths }

SLICE_ANGLE == 360 \div cfg.RING_SLICES

\* bpy.data.objects[EMITTER_NAME]
source_emitter == CHOOSE i \in 1..Len(objects) : objects[i].name = EMITTER_NAME

Init ==
    /\ script = "GenerateAnimatedHaloRing"
    /\ cfg \in RingConfigs
    /\ \E P \in 1..MaxParticles : \E e \in EmitterLocations :
          objects = Scene(e, P)
    /\ actions = <<>>
    /\ rng \in 0..MaxSeed
    /\ frame_current = 1
    /\ pc = "main"
    /\ err = ""
    /\ sample = 0
    /\ step_offsets = <<>>
    /\ source_particles = <<>>
    /\ source_empty = 0
    /\ new_slice_particles = <<>>
    /\ empty = 0
    /\ object_list = <<>>
    /\ link_index = 0
    /\ saved = <<>>

-----------------------------------------------------------------------------
(* GenerateAnimatedHaloRing.py: main().                                    *)

\* The heap a step leaves behind, and where main() goes: on, or out with
\* the exception.
Commit(h, next_pc) ==
    /\ objects' = h.objects
    /\ actions' = h.actions
    /\ rng' = h.rng
    /\ frame_current' = h.frame_current
    /\ err' = h.err
    /\ pc' = IF h.err = "" THEN next_pc ELSE "failed"

\* The angle of the sample after the one asked for.
OffsetAngleOfNextSample(s) == (180 \div (cfg.RING_SLICES \div 2)) * (s + 1)

\* The angle main() passes to get_offset_for_slice for a sample.
OffsetAngle(s) == (180 \div (cfg.RING_SLICES \div 2)) * s

\* Lines 415-435: emitter, selected particles, output list, source empty,
\* slice animation offsets.
Setup ==
    /\ pc = "main"
    /\ LET start_animation_length ==
               107 + cfg.ASSEMBLY_ANIMATION_LENGTH
                   + cfg.CUBE_VISIBILITY_TRANSITION_LENGTH
       IN /\ source_particles' =
                 SelectSeq([i \in 1..Len(objects) |-> i],
                           LAMBDA o : /\ objects[o].selected
                                      /\ objects[o].name # EMITTER_NAME)
          /\ object_list' = <<>>
          /\ source_empty' = Len(objects) + 1
          /\ step_offsets' =
                 [s \in 1..cfg.RING_SAMPLES |->
                     Minus(get_offset_for_slice(OffsetAngle(s - 1)),
                           start_animation_length)]
          /\ sample' = 0
          /\ Commit([Heap EXCEPT !.objects = Append(@, NewObject(EMPTY_NAME))],
                    "new_slice")
    /\ UNCHANGED <<script, cfg, new_slice_particles, empty, link_index, saved>>

\* Lines 440-443: "Create New Slice".
RECURSIVE DuplicateParticles(_, _, _)
DuplicateParticles(h, sources, i) ==
    IF i > Len(sources) THEN h
    ELSE DuplicateParticles(
            LET h1 == duplicate_particle(h, sources[i])
            IN [h1 EXCEPT !.objects[Len(h1.objects)].sample = sample],
            sources, i + 1)

NewSlice ==
    /\ pc = "new_slice"
    /\ sample < cfg.RING_SAMPLES
    /\ new_slice_particles' =
           [i \in 1..Len(source_particles) |-> Len(objects) + i]
    /\ Commit(DuplicateParticles(Heap, source_particles, 1), "motion")
    /\ UNCHANGED <<script, cfg, sample, step_offsets, source_particles,
                   source_empty, empty, object_list, link_index, saved>>

LoopLocals == <<script, cfg, sample, step_offsets, source_particles,
                source_empty, new_slice_particles, empty, object_list,
                link_index, saved>>

\* Line 446
CreateBasicMotionKeyframes ==
    /\ pc = "motion"
    /\ Commit(create_basic_motion_keyframes(Heap, new_slice_particles,
                                            source_emitter), "flight")
    /\ UNCHANGED LoopLocals

\* Line 448
RandomizeFlightPattern ==
    /\ pc = "flight"
    /\ Commit(randomize_flight_pattern(Heap, new_slice_particles), "delay")
    /\ UNCHANGED LoopLocals

\* Line 449
RandomizeKeyframeDelay ==
    /\ pc = "delay"
    /\ Commit(randomize_keyframe_delay(Heap, new_slice_particles), "offset")
    /\ UNCHANGED LoopLocals

\* Line 450
OffsetAnimations ==
    /\ pc = "offset"
    /\ Commit(offset_animations(Heap, new_slice_particles,
                                step_offsets[sample + 1]), "ease")
    /\ UNCHANGED LoopLocals

\* Line 451
EaseKeyframes ==
    /\ pc = "ease"
    /\ Commit(ease_keyframes(Heap, new_slice_particles), "remove_easing")
    /\ UNCHANGED LoopLocals

\* Line 452
RemoveEasingOnStartFrame ==
    /\ pc = "remove_easing"
    /\ Commit(remove_easing_on_start_frame(Heap, new_slice_particles), "parent")
    /\ UNCHANGED LoopLocals

\* Line 459 alone: the parent is assigned and the parent inverse is left
\* as the particle had it.
ParentedToKeepingInverse(particle, e, matrix_world) ==
    [particle EXCEPT !.parent = e]

\* Lines 459-460: particle.parent = empty and
\* particle.matrix_parent_inverse = empty.matrix_world.inverted().
ParentedTo(particle, e, matrix_world) ==
    [particle EXCEPT !.parent = e,
                     !.matrix_parent_inverse = Inverted(matrix_world)]

\* Lines 455-460: "Create Slice Empty", "Parent Empty to Particles".
ParentSlice ==
    /\ pc = "parent"
    /\ LET e == Len(objects) + 1
           h1 == [Heap EXCEPT !.objects =
                     Append(@, [objects[source_empty] EXCEPT
                                   !.linked = FALSE,
                                   !.copy_of = source_empty,
                                   !.role = "primary",
                                   !.sample = sample])]
           h2 == [h1 EXCEPT !.objects =
                     [o \in 1..Len(h1.objects) |->
                         IF o \in Range(new_slice_particles)
                         THEN ParentedTo(h1.objects[o], e,
                                         h1.objects[e].matrix_world)
                         ELSE h1.objects[o]]]
       IN /\ empty' = e
          /\ Commit(h2, "rotate")
    /\ UNCHANGED <<script, cfg, sample, step_offsets, source_particles,
                   source_empty, new_slice_particles, object_list,
                   link_index, saved>>

\* The half-turn test taken one sample early.
IsHalfTurnSampleOneEarly(s) == 2 * s = cfg.RING_SLICES - 2

\* The sample main() rotates to 180 degrees without a mirror.
IsHalfTurnSample(s) == 2 * s = cfg.RING_SLICES

\* Lines 463-478: "Determine Rotation Angle", "Rotate Empty", "Add
\* Duplicate Slice to Object List".
RotateSlice ==
    /\ pc = "rotate"
    /\ LET angle == SLICE_ANGLE * sample
       IN IF sample = 0
          THEN /\ Commit(Heap, "add_slice")
               /\ UNCHANGED object_list
          ELSE IF IsHalfTurnSample(sample)
          THEN /\ Commit(rotate_slice_by_angle(Heap, empty, <<0, 0, 180>>),
                         "add_slice")
               /\ UNCHANGED object_list
          ELSE LET duplicate_slice_empty == Len(objects) + 1
                   duplicate_slice_particles ==
                       [i \in 1..Len(new_slice_particles) |->
                           duplicate_slice_empty + i]
                   h0 == duplicate_slice(Heap, new_slice_particles,
                                         source_empty)
                   h1 == IF h0.err # "" THEN h0
                         ELSE [h0 EXCEPT
                                 !.objects[duplicate_slice_empty].sample = sample]
                   h2 == rotate_slice_by_angle(h1, empty, <<0, 0, angle>>)
                   h3 == rotate_slice_by_angle(h2, duplicate_slice_empty,
                                               <<180, 0, -angle>>)
               IN IF h1.err # ""
                  THEN /\ Commit(h1, "add_slice")
                       /\ UNCHANGED object_list
                  ELSE /\ Commit(h3, "add_slice")
                       /\ object_list' = object_list
                              \o <<duplicate_slice_empty>>
                              \o duplicate_slice_particles
    /\ UNCHANGED <<script, cfg, sample, step_offsets, source_particles,
                   source_empty, new_slice_particles, empty, link_index, saved>>

\* Lines 485-487: "Add Slice to Object List", and the loop's next sample.
AddSliceToObjectList ==
    /\ pc = "add_slice"
    /\ object_list' = object_list \o <<empty>> \o new_slice_particles
    /\ sample' = sample + 1
    /\ Commit(Heap, IF sample + 1 < cfg.RING_SAMPLES
                    THEN "new_slice" ELSE "link")
    /\ UNCHANGED <<script, cfg, step_offsets, source_particles, source_empty,
                   new_slice_particles, empty, link_index, saved>>

\* Lines 490-494, one object of "Create All Objects": link it, hide it.
\* Linking an object the collection already holds raises RuntimeError.
LinkObject ==
    /\ pc = "link"
    /\ link_index < Len(object_list)
    /\ LET o == object_list[link_index + 1]
       IN IF objects[o].linked
          THEN Commit(Failed(Heap, "RuntimeError"), "link")
          ELSE Commit(hide_object([Heap EXCEPT !.objects[o].linked = TRUE], o),
                      "link")
    /\ link_index' = link_index + 1
    /\ UNCHANGED <<script, cfg, sample, step_offsets, source_particles,
                   source_empty, new_slice_particles, empty, object_list, saved>>

\* Line 497: "Return to Start Frame".
ReturnToStartFrame ==
    /\ pc = "link"
    /\ link_index = Len(object_list)
    /\ Commit(frame_set(Heap, cfg.RING_ANIMATION_START), "done")
    /\ UNCHANGED <<script, cfg, sample, step_offsets, source_particles,
                   source_empty, new_slice_particles, empty, object_list,
                   link_index, saved>>

Next ==
    \/ Setup
    \/ NewSlice
    \/ CreateBasicMotionKeyframes
    \/ RandomizeFlightPattern
    \/ RandomizeKeyframeDelay
    \/ OffsetAnimations
    \/ EaseKeyframes
    \/ RemoveEasingOnStartFrame
    \/ ParentSlice
    \/ RotateSlice
    \/ AddSliceToObjectList
    \/ LinkObject
    \/ ReturnToStartFrame

Spec == Init /\ [][Next]_vars

-----------------------------------------------------------------------------
(* Halo3LoadingScreen.py                                                   *)

\* duplicate_particle(particle): a new object at the particle's location,
\* linked to the scene at once; it is the last object of the returned heap.
H3_duplicate_particle(h, particle) ==
    [h EXCEPT !.objects = Append(@, [NewObject(PARTICLE_NAME) EXCEPT
                                        !.location = h.objects[particle].location,
                                        !.linked = TRUE,
                                        !.copy_of = particle,
                                        !.role = "primary"])]

RECURSIVE H3_InsertLocationKeys(_, _, _)
H3_InsertLocationKeys(h, slice, i) ==
    IF i > Len(slice) THEN h
    ELSE H3_InsertLocationKeys(keyframe_insert_location(h, slice[i]), slice, i + 1)

\* x_pos, y_pos, z_pos of create_basic_motion_keyframes; variation is the
\* triple of randrange draws, in Blender units.
H3_StartPosition(location, emitter, variation) ==
    << (location[1] - emitter[1]) * cfg.ASSEMBLY_TRAVEL_DISTANCE + 60 * variation[1],
       (location[2] - emitter[2]) * cfg.ASSEMBLY_TRAVEL_DISTANCE + 60 * variation[2],
       (location[3] - emitter[3]) * cfg.ASSEMBLY_TRAVEL_DISTANCE + 60 * variation[3] >>

\* Second loop of create_basic_motion_keyframes.
RECURSIVE H3_SetStartLocationKeyframe(_, _, _, _)
H3_SetStartLocationKeyframe(h, slice, emitter, i) ==
    IF i > Len(slice) \/ h.err # "" THEN h
    ELSE IF cfg.ASSEMBLY_START_VARIATION <= 0 THEN Failed(h, "ValueError")
    ELSE
      LET v == cfg.ASSEMBLY_START_VARIATION
          r1 == h.rng
          r2 == NextRng(r1)
          r3 == NextRng(r2)
          variation == << randrange(r1, -v, v), randrange(r2, -v, v),
                          randrange(r3, -v, v) >>
          pos == H3_StartPosition(h.objects[slice[i]].location,
                                  h.objects[emitter].location, variation)
          h1 == [h EXCEPT !.rng = NextRng(r3),
                          !.objects[slice[i]].location = pos,
                          !.objects[slice[i]].jitter = variation]
      IN H3_SetStartLocationKeyframe(keyframe_insert_location(h1, slice[i]),
                                     slice, emitter, i + 1)

\* create_basic_motion_keyframes with its two loops exchanged: the start
\* location is assigned and keyed before the final location is keyed.
H3_create_basic_motion_keyframes_StartFirst(h, slice, emitter) ==
    LET h1 == H3_SetStartLocationKeyframe(frame_set(h, cfg.START_FRAME),
                                          slice, emitter, 1)
    IN IF h1.err # "" THEN h1
       ELSE H3_InsertLocationKeys(
                frame_set(h1, cfg.START_FRAME + cfg.ASSEMBLY_ANIMATION_LENGTH),
                slice, 1)

\* create_basic_motion_keyframes(slice, source_emitter)
H3_create_basic_motion_keyframes(h, slice, emitter) ==
    H3_SetStartLocationKeyframe(
        frame_set(
            H3_InsertLocationKeys(
                frame_set(h, cfg.START_FRAME + cfg.ASSEMBLY_ANIMATION_LENGTH),
                slice, 1),
            cfg.START_FRAME),
        slice, emitter, 1)

\* The assignment and the insertion of create_animated_materials without
\* the frame_set before them: the key lands wherever the cursor is.
H3_MaterialKeyAtCursor(h, o, frame, name, value) ==
    keyframe_insert_property(h, o, name, PropertyPath(name), value)

\* One "frame_set, assign, keyframe_insert" of create_animated_materials.
H3_MaterialKey(h, o, frame, name, value) ==
    keyframe_insert_property(frame_set(h, frame), o, name, PropertyPath(name), value)

\* create_animated_materials(slice); the material copies and drivers are
\* the host's wiring and carry no animation state.
RECURSIVE H3_create_animated_materials_from(_, _, _)
H3_create_animated_materials_from(h, slice, i) ==
    IF i > Len(slice) THEN h
    ELSE
      LET o == slice[i]
          S == cfg.START_FRAME
          L == cfg.ASSEMBLY_ANIMATION_LENGTH
          CV == cfg.CUBE_VISIBILITY_TRANSITION_LENGTH
          CB == cfg.CUBE_BRIGHTNESS_TRANSITION_LENGTH
          h1 == H3_MaterialKey(h, o, S, "Orb Visibility", 0)
          h2 == H3_MaterialKey(h1, o, S + IntTrunc(L, 10), "Orb Visibility", 60)
          h3 == H3_MaterialKey(h2, o, S + L, "Orb Visibility", 60)
          h4 == H3_MaterialKey(h3, o, S + L + CV, "Orb Visibility", 0)
          h5 == H3_MaterialKey(h4, o, S + L, "Cube Visibility", 0)
          h6 == H3_MaterialKey(h5, o, S + L + CV, "Cube Visibility", 60)
          h7 == H3_MaterialKey(h6, o, S + L + CV, "Cube Brightness", 180)
          h8 == H3_MaterialKey(h7, o, S + L + CV + CB, "Cube Brightness", 60)
      IN IF h8.err # "" THEN h8
         ELSE H3_create_animated_materials_from(h8, slice, i + 1)

H3_create_animated_materials(h, slice) ==
    H3_create_animated_materials_from(h, slice, 1)

\* The raw height factor taken without the replacement of a zero width.
H3_RawHeightFactorNoEpsilon(location, emitter) ==
    LET x_distance == Abs(location[1] - emitter[1])
        y_distance == Abs(location[2] - emitter[2])
        width == IF x_distance > y_distance THEN x_distance ELSE y_distance
    IN <<Abs(location[3] - emitter[3]), width>>

\* A raw height factor |dz| / width as the fraction <<numerator,
\* denominator>>; a zero width is replaced by .001 Blender units.  A zero
\* denominator stands for the division that raises ZeroDivisionError.
H3_RawHeightFactor(location, emitter) ==
    LET x_distance == Abs(location[1] - emitter[1])
        y_distance == Abs(location[2] - emitter[2])
        width == IF x_distance > y_distance THEN x_distance ELSE y_distance
        height == Abs(location[3] - emitter[3])
    IN IF width = 0 THEN <<height * 1000, 60>> ELSE <<height, width>>

FractionGreater(p, q) == p[1] * q[2] > q[1] * p[2]

RECURSIVE GCD(_, _)
GCD(m, n) == IF n = 0 THEN m ELSE GCD(n, m % n)

\* A fraction in lowest terms.
Reduced(p) ==
    IF p[2] = 0 THEN p
    ELSE LET g == GCD(p[1], p[2]) IN <<p[1] \div g, p[2] \div g>>

RECURSIVE H3_MaxHeightFactor(_, _, _)
H3_MaxHeightFactor(raw, i, max) ==
    IF i > Len(raw) THEN max
    ELSE H3_MaxHeightFactor(raw, i + 1,
                            IF FractionGreater(raw[i], max) THEN raw[i] ELSE max)

\* raw_height_factors of get_height_factors.
H3_RawHeightFactors(h, slice, emitter) ==
    [i \in 1..Len(slice) |->
        Reduced(H3_RawHeightFactor(h.objects[slice[i]].location,
                                   h.objects[emitter].location))]

\* The exception get_height_factors raises, "" if none: a division by a
\* zero width, or by a zero max_height_factor.
H3_HeightFactorsError(h, slice, emitter) ==
    LET raw == H3_RawHeightFactors(h, slice, emitter)
    IN IF \E i \in 1..Len(raw) : raw[i][2] = 0 THEN "ZeroDivisionError"
       ELSE IF \E i \in 1..Len(raw) :
                 /\ raw[i][1] > 0
                 /\ H3_MaxHeightFactor(raw, 1, <<0, 1>>)[1] = 0
       THEN "ZeroDivisionError"
       ELSE ""

\* get_height_factors(slice, source_emitter): the normalized factors, each
\* a fraction <<numerator, denominator>>.
H3_get_height_factors(h, slice, emitter) ==
    LET raw == H3_RawHeightFactors(h, slice, emitter)
        max == H3_MaxHeightFactor(raw, 1, <<0, 1>>)
    IN [i \in 1..Len(slice) |->
           IF raw[i][1] > 0
           THEN Reduced(<<raw[i][1] * max[2], raw[i][2] * max[1]>>)
           ELSE <<0, 1>>]

RECURSIVE H3_UpdateStartPosition(_, _, _, _)
H3_UpdateStartPosition(h, slice, height_factors, i) ==
    IF i > Len(slice) THEN h
    ELSE
      LET factor == height_factors[i]
          loc == h.objects[slice[i]].location
      IN IF factor[1] # 0
         THEN H3_UpdateStartPosition(
                keyframe_insert_location(
                    [h EXCEPT !.objects[slice[i]].location =
                        << IntTrunc(loc[1] * (factor[2] + 5 * factor[1]), factor[2]),
                           IntTrunc(loc[2] * (factor[2] + 5 * factor[1]), factor[2]),
                           IntTrunc(loc[3] * 4, 10) >>],
                    slice[i]),
                slice, height_factors, i + 1)
         ELSE H3_UpdateStartPosition(h, slice, height_factors, i + 1)

\* give_start_frame_horizontal_bias(slice, source_emitter)
H3_give_start_frame_horizontal_bias(h, slice, emitter) ==
    LET h1 == frame_set(h, cfg.START_FRAME)
    IN IF H3_HeightFactorsError(h1, slice, emitter) # ""
       THEN Failed(h1, H3_HeightFactorsError(h1, slice, emitter))
       ELSE H3_UpdateStartPosition(h1, slice,
                                   H3_get_height_factors(h1, slice, emitter), 1)

H3_FlightRangeStart ==
    IntTrunc(10 * cfg.START_FRAME + 4 * cfg.ASSEMBLY_ANIMATION_LENGTH, 10)

H3_FlightRangeEnd ==
    IntTrunc(10 * (cfg.START_FRAME + cfg.ASSEMBLY_ANIMATION_LENGTH)
             - 4 * cfg.ASSEMBLY_ANIMATION_LENGTH, 10)

\* randomize_flight_pattern(slice): randrange raises ValueError for an
\* empty range and for the non-integer bound ASSEMBLY_FLIGHT_VARIATION / 2
\* of an odd variation.
RECURSIVE H3_randomize_flight_pattern_from(_, _, _)
H3_randomize_flight_pattern_from(h, slice, i) ==
    IF i > Len(slice) \/ h.err # "" THEN h
    ELSE
      LET v == cfg.ASSEMBLY_FLIGHT_VARIATION
          r1 == h.rng
          r2 == NextRng(r1)
          r3 == NextRng(r2)
          r4 == NextRng(r3)
      IN IF v <= 0 THEN Failed(h, "ValueError")
         ELSE IF v % 2 # 0 THEN Failed([h EXCEPT !.rng = r3], "ValueError")
         ELSE IF H3_FlightRangeEnd <= H3_FlightRangeStart
         THEN Failed([h EXCEPT !.rng = r4], "ValueError")
         ELSE
           LET variation == << randrange(r1, -v, v), randrange(r2, -v, v),
                               randrange(r3, -(v \div 2), v \div 2) >>
               frame == randrange(r4, H3_FlightRangeStart, H3_FlightRangeEnd)
               h1 == frame_set([h EXCEPT !.rng = NextRng(r4)], frame)
               loc == h1.objects[slice[i]].location
               h2 == [h1 EXCEPT !.objects[slice[i]].location =
                         << loc[1] + 60 * variation[1],
                            loc[2] + 60 * variation[2],
                            loc[3] + 60 * variation[3] >>]
           IN H3_randomize_flight_pattern_from(
                 keyframe_insert_location(h2, slice[i]), slice, i + 1)

H3_randomize_flight_pattern(h, slice) ==
    H3_randomize_flight_pattern_from(h, slice, 1)

-----------------------------------------------------------------------------
(* Halo3LoadingScreen.py: the delay stage, duplicate_slice and main().     *)

\* randomize_keyframe_delay(slice) of Halo3LoadingScreen.py: the draw is
\* made whatever ASSEMBLY_RANDOM_VARIATION is, and randrange(0, n) raises
\* ValueError for n <= 0.
RECURSIVE H3_randomize_keyframe_delay_from(_, _, _)
H3_randomize_keyframe_delay_from(h, slice, i) ==
    IF i > Len(slice) \/ h.err # "" THEN h
    ELSE IF ~HasAction(h, slice[i]) THEN Failed(h, "AttributeError")
    ELSE IF cfg.ASSEMBLY_RANDOM_VARIATION <= 0 THEN Failed(h, "ValueError")
    ELSE
      LET a == h.objects[slice[i]].action
          delay == randrange(h.rng, 0, cfg.ASSEMBLY_RANDOM_VARIATION)
      IN H3_randomize_keyframe_delay_from(
            [h EXCEPT !.rng = NextRng(h.rng),
                      !.actions[a].fcurves = AdvanceCurves(@, delay)],
            slice, i + 1)

H3_randomize_keyframe_delay(h, slice) ==
    H3_randomize_keyframe_delay_from(h, slice, 1)

\* The body of the loop of duplicate_slice of Halo3LoadingScreen.py for one
\* particle: a new object, linked at once, with a copy of the action.
H3_DuplicateSliceParticle(h, particle, new_empty) ==
    LET action_copy == h.actions[h.objects[particle].action]
        new_particle == [NewObject(h.objects[particle].name \o ".000") EXCEPT
                            !.linked = TRUE,
                            !.copy_of = particle,
                            !.role = "mirror",
                            !.sample = h.objects[particle].sample,
                            !.action = Len(h.actions) + 1,
                            !.parent = new_empty,
                            !.matrix_parent_inverse =
                                Inverted(h.objects[new_empty].matrix_world)]
    IN [h EXCEPT !.actions = Append(@, action_copy),
                 !.objects = Append(@, new_particle)]

RECURSIVE H3_duplicate_slice_from(_, _, _, _)
H3_duplicate_slice_from(h, slice, new_empty, i) ==
    IF i > Len(slice) \/ h.err # "" THEN h
    ELSE IF ~HasAction(h, slice[i]) THEN Failed(h, "AttributeError")
    ELSE H3_duplicate_slice_from(H3_DuplicateSliceParticle(h, slice[i], new_empty),
                                 slice, new_empty, i + 1)

\* duplicate_slice(slice) of Halo3LoadingScreen.py: the duplicate empty is
\* object Len(h.objects) + 1 and the new particles follow it.
H3_duplicate_slice(h, slice) ==
    H3_duplicate_slice_from(
        [h EXCEPT !.objects = Append(@, [NewObject(EMPTY_NAME) EXCEPT
                                            !.linked = TRUE,
                                            !.role = "mirror"])],
        slice, Len(h.objects) + 1, 1)

\* ASSEMBLY_RANDOM_VARIATION, ASSEMBLY_START_VARIATION and
\* ASSEMBLY_FLIGHT_VARIATION as configured together.
H3Variations ==
    { <<120, 2, 4>>, <<0, 2, 4>>, <<120, 0, 4>>, <<120, 2, 3>>, <<120, 2, 0>> }

H3Layouts == { 2, 4, 8 }

\* The configuration block of Halo3LoadingScreen.py, with the source's
\* values except where a set of values is tried.
H3Configs ==
    { [START_FRAME |-> 0,
       ASSEMBLY_ANIMATION_LENGTH |-> 80,
       ASSEMBLY_RANDOM_VARIATION |-> v[1],
       ASSEMBLY_TRAVEL_DISTANCE |-> 25,
       ASSEMBLY_START_VARIATION |-> v[2],
       ASSEMBLY_FLIGHT_VARIATION |-> v[3],
       CUBE_VISIBILITY_TRANSITION_LENGTH |-> 20,
       CUBE_BRIGHTNESS_TRANSITION_LENGTH |-> 120,
       RING_SLICES |-> slices,
       RING_SAMPLES |-> samples] :
      v \in H3Variations, slices \in H3Layouts, samples \in 1..MaxSamples }

InitH3 ==
    /\ script = "Halo3LoadingScreen"
    /\ cfg \in H3Configs
    /\ \E P \in 1..MaxParticles : \E e \in EmitterLocations :
          objects = Scene(e, P)
    /\ actions = <<>>
    /\ rng \in 0..MaxSeed
    /\ frame_current = 1
    /\ pc = "main"
    /\ err = ""
    /\ sample = 0
    /\ step_offsets = <<>>
    /\ source_particles = <<>>
    /\ source_empty = 0
    /\ new_slice_particles = <<>>
    /\ empty = 0
    /\ object_list = <<>>
    /\ link_index = 0
    /\ saved = <<>>

\* Lines 326-332: emitter, selected particles.
H3Setup ==
    /\ pc = "main"
    /\ source_particles' =
           SelectSeq([i \in 1..Len(objects) |-> i],
                     LAMBDA o : /\ objects[o].selected
                                /\ objects[o].name # EMITTER_NAME)
    /\ sample' = 0
    /\ Commit(Heap, "new_slice")
    /\ UNCHANGED <<script, cfg, step_offsets, source_empty, new_slice_particles,
                   empty, object_list, link_index, saved>>

\* Lines 338-340: "Create New Slice".
RECURSIVE H3_DuplicateParticles(_, _, _)
H3_DuplicateParticles(h, sources, i) ==
    IF i > Len(sources) THEN h
    ELSE H3_DuplicateParticles(
            LET h1 == H3_duplicate_particle(h, sources[i])
            IN [h1 EXCEPT !.objects[Len(h1.objects)].sample = sample],
            sources, i + 1)

H3NewSlice ==
    /\ pc = "new_slice"
    /\ sample < cfg.RING_SAMPLES
    /\ new_slice_particles' =
           [i \in 1..Len(source_particles) |-> Len(objects) + i]
    /\ Commit(H3_DuplicateParticles(Heap, source_particles, 1), "motion")
    /\ UNCHANGED <<script, cfg, sample, step_offsets, source_particles,
                   source_empty, empty, object_list, link_index, saved>>

\* Line 343
H3CreateBasicMotionKeyframes ==
    /\ pc = "motion"
    /\ Commit(H3_create_basic_motion_keyframes(Heap, new_slice_particles,
                                               source_emitter), "materials")
    /\ UNCHANGED LoopLocals

\* Line 344
H3CreateAnimatedMaterials ==
    /\ pc = "materials"
    /\ Commit(H3_create_animated_materials(Heap, new_slice_particles), "bias")
    /\ UNCHANGED LoopLocals

\* Line 345
H3GiveStartFrameHorizontalBias ==
    /\ pc = "bias"
    /\ Commit(H3_give_start_frame_horizontal_bias(Heap, new_slice_particles,
                                                  source_emitter), "flight")
    /\ UNCHANGED LoopLocals

\* Line 346
H3RandomizeFlightPattern ==
    /\ pc = "flight"
    /\ Commit(H3_randomize_flight_pattern(Heap, new_slice_particles), "delay")
    /\ UNCHANGED LoopLocals

\* Line 347
H3RandomizeKeyframeDelay ==
    /\ pc = "delay"
    /\ Commit(H3_randomize_keyframe_delay(Heap, new_slice_particles), "ease")
    /\ UNCHANGED LoopLocals

\* Line 348
H3EaseKeyframes ==
    /\ pc = "ease"
    /\ Commit(ease_keyframes(Heap, new_slice_particles), "remove_easing")
    /\ UNCHANGED LoopLocals

\* Line 349
H3RemoveEasingOnStartFrame ==
    /\ pc = "remove_easing"
    /\ Commit(remove_easing_on_start_frame(Heap, new_slice_particles), "parent")
    /\ UNCHANGED LoopLocals

\* Lines 352-358: "Create Slice Empty", "Parent Empty to Particles".
H3ParentSlice ==
    /\ pc = "parent"
    /\ LET e == Len(objects) + 1
           h1 == [Heap EXCEPT !.objects =
                     Append(@, [NewObject(EMPTY_NAME) EXCEPT
                                   !.linked = TRUE,
                                   !.role = "primary",
                                   !.sample = sample])]
           h2 == [h1 EXCEPT !.objects =
                     [o \in 1..Len(h1.objects) |->
                         IF o \in Range(new_slice_particles)
                         THEN ParentedTo(h1.objects[o], e,
                                         h1.objects[e].matrix_world)
                         ELSE h1.objects[o]]]
       IN /\ empty' = e
          /\ Commit(h2, "rotate")
    /\ UNCHANGED <<script, cfg, sample, step_offsets, source_particles,
                   source_empty, new_slice_particles, object_list,
                   link_index, saved>>

\* sample == (RING_SLICES / 2) - 1
H3_IsHalfTurnSample(s) == 2 * s = cfg.RING_SLICES - 2

\* Lines 361-371: "Determine Rotation Angle", "Rotate Empty", and the
\* loop's next sample.
H3RotateSlice ==
    /\ pc = "rotate"
    /\ LET angle == SLICE_ANGLE * sample
           next_pc == IF sample + 1 < cfg.RING_SAMPLES
                      THEN "new_slice" ELSE "return"
       IN IF sample = 0
          THEN Commit(Heap, next_pc)
          ELSE IF H3_IsHalfTurnSample(sample)
          THEN Commit(rotate_slice_by_angle(Heap, empty, <<0, 0, 180>>),
                      next_pc)
          ELSE LET duplicate_slice_empty == Len(objects) + 1
                   h0 == H3_duplicate_slice(Heap, new_slice_particles)
                   h1 == IF h0.err # "" THEN h0
                         ELSE [h0 EXCEPT
                                 !.objects[duplicate_slice_empty].sample = sample]
                   h2 == rotate_slice_by_angle(h1, empty, <<0, 0, angle>>)
                   h3 == rotate_slice_by_angle(h2, duplicate_slice_empty,
                                               <<180, 0, -angle>>)
               IN IF h1.err # "" THEN Commit(h1, next_pc)
                  ELSE Commit(h3, next_pc)
    /\ sample' = sample + 1
    /\ UNCHANGED <<script, cfg, step_offsets, source_particles, source_empty,
                   new_slice_particles, empty, object_list, link_index, saved>>

\* Line 375: "Return to Start Frame".
H3ReturnToStartFrame ==
    /\ pc = "return"
    /\ Commit(frame_set(Heap, cfg.START_FRAME), "done")
    /\ UNCHANGED LoopLocals

NextH3 ==
    \/ H3Setup
    \/ H3NewSlice
    \/ H3CreateBasicMotionKeyframes
    \/ H3CreateAnimatedMaterials
    \/ H3GiveStartFrameHorizontalBias
    \/ H3RandomizeFlightPattern
    \/ H3RandomizeKeyframeDelay
    \/ H3EaseKeyframes
    \/ H3RemoveEasingOnStartFrame
    \/ H3ParentSlice
    \/ H3RotateSlice
    \/ H3ReturnToStartFrame

SpecH3 == InitH3 /\ [][NextH3]_vars

-----------------------------------------------------------------------------
(* GenerateParticleAssembly.py: the delay stage.                           *)

\* The data paths randomize_keyframe_delay of GenerateParticleAssembly.py
\* acts on.
GPA_IsAnimatedPath(data_path) == data_path \in {"location", MATERIAL_VARIABLE}

GPA_AdvanceCurves(fcurves, delta) ==
    [c \in 1..Len(fcurves) |->
        IF GPA_IsAnimatedPath(fcurves[c].data_path)
        THEN [fcurves[c] EXCEPT !.keyframe_points =
                [k \in 1..Len(fcurves[c].keyframe_points) |->
                    AdvancePoint(fcurves[c].keyframe_points[k], delta)]]
        ELSE fcurves[c]]

\* randomize_keyframe_delay(new_particles) of GenerateParticleAssembly.py
RECURSIVE GPA_randomize_keyframe_delay_from(_, _, _)
GPA_randomize_keyframe_delay_from(h, slice, i) ==
    IF i > Len(slice) \/ h.err # "" THEN h
    ELSE IF ~HasAction(h, slice[i]) THEN Failed(h, "AttributeError")
    ELSE IF cfg.ASSEMBLY_RANDOM_VARIATION <= 0 THEN Failed(h, "ValueError")
    ELSE
      LET a == h.objects[slice[i]].action
          delay == randrange(h.rng, 0, cfg.ASSEMBLY_RANDOM_VARIATION)
      IN GPA_randomize_keyframe_delay_from(
            [h EXCEPT !.rng = NextRng(h.rng),
                      !.actions[a].fcurves = GPA_AdvanceCurves(@, delay)],
            slice, i + 1)

GPA_randomize_keyframe_delay(h, slice) ==
    GPA_randomize_keyframe_delay_from(h, slice, 1)

-----------------------------------------------------------------------------
(* RandomizeKeyframedLocationOffset.py                                     *)

MIN_OFFSET == 0
MAX_OFFSET == 40

\* "Advance By Offset" of RandomizeKeyframedLocationOffset.py: co.x alone.
LocationOffset_AdvancePoint(point, offset) ==
    [point EXCEPT !.co[1] = @ + offset]

LocationOffset_AdvanceCurves(fcurves, offset) ==
    [c \in 1..Len(fcurves) |->
        IF fcurves[c].data_path = "location"
        THEN [fcurves[c] EXCEPT !.keyframe_points =
                [k \in 1..Len(fcurves[c].keyframe_points) |->
                    LocationOffset_AdvancePoint(fcurves[c].keyframe_points[k],
                                                offset)]]
        ELSE fcurves[c]]

\* The loop of main() over bpy.context.selected_objects.
RECURSIVE LocationOffset_main_from(_, _, _)
LocationOffset_main_from(h, object_list_, i) ==
    IF i > Len(object_list_) \/ h.err # "" THEN h
    ELSE IF ~HasAction(h, object_list_[i]) THEN Failed(h, "AttributeError")
    ELSE IF MAX_OFFSET <= MIN_OFFSET THEN Failed(h, "ValueError")
    ELSE
      LET a == h.objects[object_list_[i]].action
          offset == randrange(h.rng, MIN_OFFSET, MAX_OFFSET)
      IN LocationOffset_main_from(
            [h EXCEPT !.rng = NextRng(h.rng),
                      !.actions[a].fcurves =
                          LocationOffset_AdvanceCurves(@, offset)],
            object_list_, i + 1)

LocationOffset_main(h) ==
    LocationOffset_main_from(
        h,
        SelectSeq([i \in 1..Len(h.objects) |-> i],
                  LAMBDA o : h.objects[o].selected),
        1)

-----------------------------------------------------------------------------
(* The curve functions applied to slices of keyframed objects: the scripts' *)
(* shifting and easing functions called on their own, on objects whose     *)
(* curves are drawn from a bounded set.                                    *)

\* A keyframe point as the host leaves it after handle calculation.
HandledPoint(frame, value) ==
    [co |-> <<frame, value>>, handle_left |-> <<frame - 4, value - 1>>,
     handle_right |-> <<frame + 4, value + 1>>, interpolation |-> "HOST_DEFAULT"]

SampleKeyframes ==
    { << HandledPoint(220, 120), HandledPoint(120, 3600), HandledPoint(170, 150) >>,
      << HandledPoint(0, 5), HandledPoint(80, 9) >>,
      << HandledPoint(10, 1) >> }

LocationCurves(kp) ==
    [i \in 1..3 |-> [NewCurve("location", i - 1) EXCEPT !.keyframe_points = kp]]

PropertyCurve(data_path) ==
    [NewCurve(data_path, 0) EXCEPT
        !.keyframe_points = << HandledPoint(0, 0), HandledPoint(8, 1) >>]

SampleExtraCurves ==
    { <<>>,
      << PropertyCurve(ORB_VISIBILITY), PropertyCurve(MATERIAL_VARIABLE) >>,
      << PropertyCurve(CUBE_BRIGHTNESS), PropertyCurve("rotation_euler") >> }

SampleActions ==
    { [fcurves |-> LocationCurves(kp) \o extra] :
        kp \in SampleKeyframes, extra \in SampleExtraCurves }

\* The offsets offset_animations is called with.
SampleOffsets == { -41, 0, 1055 }

InitCurves ==
    /\ script = "CurveFunctions"
    /\ cfg \in { [ASSEMBLY_RANDOM_VARIATION |-> v] : v \in {0, 20} }
    /\ \E N \in 1..MaxParticles :
          /\ objects = [i \in 1..N |->
                           [NewObject(PARTICLE_NAME) EXCEPT
                               !.action = i, !.linked = TRUE, !.selected = TRUE]]
          /\ actions \in [1..N -> SampleActions]
          /\ new_slice_particles = [i \in 1..N |-> i]
    /\ rng \in 0..MaxSeed
    /\ frame_current = 1
    /\ pc = "ready"
    /\ err = ""
    /\ sample = 0
    /\ step_offsets = <<>>
    /\ source_particles = <<>>
    /\ source_empty = 0
    /\ empty = 0
    /\ object_list = <<>>
    /\ link_index = 0
    /\ saved = <<>>

\* The heap a call leaves behind; `saved` keeps the actions as they were
\* before it.
Returned(h, next_pc) ==
    /\ objects' = h.objects
    /\ actions' = h.actions
    /\ rng' = h.rng
    /\ frame_current' = h.frame_current
    /\ err' = h.err
    /\ pc' = next_pc

CallLocals == <<script, cfg, sample, source_particles, source_empty,
                new_slice_particles, empty, object_list, link_index>>

CallOffsetAnimations ==
    /\ pc = "ready"
    /\ \E d \in SampleOffsets :
          /\ step_offsets' = <<Real(d)>>
          /\ Returned(offset_animations(Heap, new_slice_particles, Real(d)),
                      "offset_animations")
    /\ saved' = actions
    /\ UNCHANGED CallLocals

\* The second call, with the first call's offset negated.
CallOffsetAnimationsBack ==
    /\ pc = "offset_animations"
    /\ Returned(offset_animations(Heap, new_slice_particles,
                                  Real(-step_offsets[1].value)),
                "offset_animations_back")
    /\ UNCHANGED <<CallLocals, step_offsets, saved>>

CallRandomizeKeyframeDelay ==
    /\ pc = "ready"
    /\ Returned(randomize_keyframe_delay(Heap, new_slice_particles),
                "randomize_keyframe_delay")
    /\ saved' = actions
    /\ UNCHANGED <<CallLocals, step_offsets>>

CallH3RandomizeKeyframeDelay ==
    /\ pc = "ready"
    /\ Returned(H3_randomize_keyframe_delay(Heap, new_slice_particles),
                "H3_randomize_keyframe_delay")
    /\ saved' = actions
    /\ UNCHANGED <<CallLocals, step_offsets>>

CallGPARandomizeKeyframeDelay ==
    /\ pc = "ready"
    /\ Returned(GPA_randomize_keyframe_delay(Heap, new_slice_particles),
                "GPA_randomize_keyframe_delay")
    /\ saved' = actions
    /\ UNCHANGED <<CallLocals, step_offsets>>

CallRemoveEasingOnStartFrame ==
    /\ pc = "ready"
    /\ Returned(remove_easing_on_start_frame(Heap, new_slice_particles),
                "remove_easing_on_start_frame")
    /\ saved' = actions
    /\ UNCHANGED <<CallLocals, step_offsets>>

\* main() of RandomizeKeyframedLocationOffset.py, run on the selection.
RunRandomizeKeyframedLocationOffset ==
    /\ pc = "ready"
    /\ Returned(LocationOffset_main(Heap), "RandomizeKeyframedLocationOffset")
    /\ saved' = actions
    /\ UNCHANGED <<CallLocals, step_offsets>>

NextCurves ==
    \/ CallOffsetAnimations
    \/ CallOffsetAnimationsBack
    \/ CallRandomizeKeyframeDelay
    \/ CallH3RandomizeKeyframeDelay
    \/ CallGPARandomizeKeyframeDelay
    \/ CallRemoveEasingOnStartFrame
    \/ RunRandomizeKeyframedLocationOffset

SpecCurves == InitCurves /\ [][NextCurves]_vars

-----------------------------------------------------------------------------
(* The geometry functions, called on slices of objects at and about the   *)
(* emitter: get_height_factors of Halo3LoadingScreen.py and the sign      *)
(* computation of create_basic_motion_keyframes.                          *)

\* The locations tried for the objects of a slice.
GeometryLocations ==
    { <<x, y, z>> : x \in {0, 60}, y \in {0, -60}, z \in {-60, 0, 60} }

InitGeometry ==
    /\ script = "GeometryFunctions"
    /\ cfg = [ASSEMBLY_TRAVEL_DISTANCE |-> 25]
    /\ \E N \in 1..MaxParticles : \E e \in EmitterLocations :
       \E locations \in [1..N -> GeometryLocations] :
          /\ objects = [i \in 1..(N + 1) |->
                           IF i = 1
                           THEN [NewObject(EMITTER_NAME) EXCEPT
                                    !.location = e, !.linked = TRUE]
                           ELSE [NewObject(PARTICLE_NAME) EXCEPT
                                    !.location = locations[i - 1],
                                    !.linked = TRUE, !.selected = TRUE]]
          /\ new_slice_particles = [i \in 1..N |-> i + 1]
    /\ actions = <<>>
    /\ rng = 0
    /\ frame_current = 1
    /\ pc = "ready"
    /\ err = ""
    /\ sample = 0
    /\ step_offsets = <<>>
    /\ source_particles = <<>>
    /\ source_empty = 0
    /\ empty = 0
    /\ object_list = <<>>
    /\ link_index = 0
    /\ saved = <<>>

GeometryLocals == <<script, cfg, objects, actions, rng, frame_current, sample,
                    step_offsets, source_particles, source_empty,
                    new_slice_particles, empty, object_list, link_index>>

\* height_factors = get_height_factors(slice, source_emitter); `saved`
\* keeps what it returns.
CallGetHeightFactors ==
    /\ pc = "ready"
    /\ pc' = "get_height_factors"
    /\ err' = H3_HeightFactorsError(Heap, new_slice_particles, source_emitter)
    /\ saved' = IF err' = ""
                THEN H3_get_height_factors(Heap, new_slice_particles,
                                           source_emitter)
                ELSE <<>>
    /\ UNCHANGED GeometryLocals

\* The signs create_basic_motion_keyframes computes for each object of the
\* slice; `saved` keeps them.
CallPositionSigns ==
    /\ pc = "ready"
    /\ pc' = "position_signs"
    /\ LET signs == [i \in 1..Len(new_slice_particles) |->
                        PositionSigns(objects[new_slice_particles[i]].location,
                                      objects[source_emitter].location)]
       IN /\ err' = IF \E i \in 1..Len(signs) : \E a \in 1..3 :
                         signs[i][a].err # ""
                    THEN "ZeroDivisionError" ELSE ""
          /\ saved' = [i \in 1..Len(signs) |->
                          [a \in 1..3 |-> signs[i][a].value]]
    /\ UNCHANGED GeometryLocals

NextGeometry ==
    \/ CallGetHeightFactors
    \/ CallPositionSigns

SpecGeometry == InitGeometry /\ [][NextGeometry]_vars

-----------------------------------------------------------------------------
(* create_animated_materials of GenerateAnimatedHaloRing.py (main() has    *)
(* the call commented out) and of Halo3LoadingScreen.py, called on a       *)
(* slice of fresh duplicates.                                              *)

\* The four orb visibility frames with the second key a whole assembly
\* length after the first.
OrbFramesFadeAfterArrival(S, orb_visibility_offset, L, transition) ==
    << S + orb_visibility_offset, S + orb_visibility_offset + L,
       S + L, S + L + transition >>

\* The frames of the four orb visibility keyframes, lines 180, 185, 190
\* and 195; the cursor takes the whole part of a fractional frame.
OrbFrames(S, orb_visibility_offset, L, transition) ==
    << S + orb_visibility_offset,
       IntTrunc(10 * (S + orb_visibility_offset) + L, 10),
       S + L, S + L + transition >>

\* create_animated_materials(slice) of GenerateAnimatedHaloRing.py; the
\* material copies and drivers are the host's wiring and carry no
\* animation state.
RECURSIVE create_animated_materials_from(_, _, _)
create_animated_materials_from(h, slice, i) ==
    IF i > Len(slice) THEN h
    ELSE
      LET o == slice[i]
          S == cfg.RING_ANIMATION_START
          L == cfg.ASSEMBLY_ANIMATION_LENGTH
          CV == cfg.CUBE_VISIBILITY_TRANSITION_LENGTH
          CB == cfg.CUBE_BRIGHTNESS_TRANSITION_LENGTH
          orb_visibility_offset ==
              randrange(h.rng, 0, cfg.ORB_VISIBILITY_VARIATION + 1)
          frames == OrbFrames(S, orb_visibility_offset, L,
                              cfg.ORB_VISIBILITY_TRANSITION_LENGTH)
          h0 == [h EXCEPT !.rng = NextRng(h.rng)]
          h1 == H3_MaterialKey(h0, o, frames[1], "Orb Visibility", 0)
          h2 == H3_MaterialKey(h1, o, frames[2], "Orb Visibility", 60)
          h3 == H3_MaterialKey(h2, o, frames[3], "Orb Visibility", 60)
          h4 == H3_MaterialKey(h3, o, frames[4], "Orb Visibility", 0)
          h5 == H3_MaterialKey(h4, o, S + L, "Cube Visibility", 0)
          h6 == H3_MaterialKey(h5, o, S + L + CV, "Cube Visibility", 60)
          h7 == H3_MaterialKey(h6, o, S + L + CV, "Cube Brightness", 1080)
          h8 == H3_MaterialKey(h7, o, S + L + CV + CB, "Cube Brightness", 180)
      IN IF h8.err # "" THEN h8
         ELSE create_animated_materials_from(h8, slice, i + 1)

create_animated_materials(h, slice) == create_animated_materials_from(h, slice, 1)

\* The configuration blocks as shipped.
RingMaterialConfig ==
    [RING_ANIMATION_START |-> 120, ASSEMBLY_ANIMATION_LENGTH |-> 100,
     ASSEMBLY_TRAVEL_DISTANCE |-> 30, ASSEMBLY_START_VARIATION |-> 2,
     ORB_VISIBILITY_VARIATION |-> 20, ORB_VISIBILITY_TRANSITION_LENGTH |-> 20,
     CUBE_VISIBILITY_TRANSITION_LENGTH |-> 20,
     CUBE_BRIGHTNESS_TRANSITION_LENGTH |-> 30]

H3MaterialConfig ==
    [START_FRAME |-> 0, ASSEMBLY_ANIMATION_LENGTH |-> 80,
     ASSEMBLY_TRAVEL_DISTANCE |-> 25, ASSEMBLY_START_VARIATION |-> 2,
     CUBE_VISIBILITY_TRANSITION_LENGTH |-> 20,
     CUBE_BRIGHTNESS_TRANSITION_LENGTH |-> 120]

\* The slice: duplicates of the templates as duplicate_particle leaves
\* them, unlinked in the ring script and linked in the loading screen.
InitMaterials ==
    /\ script \in {"GenerateAnimatedHaloRing", "Halo3LoadingScreen"}
    /\ cfg = IF script = "GenerateAnimatedHaloRing"
             THEN RingMaterialConfig ELSE H3MaterialConfig
    /\ \E P \in 1..MaxParticles : \E e \in EmitterLocations :
          /\ objects = Scene(e, P) \o
                 [i \in 1..P |->
                     [NewObject(PARTICLE_NAME) EXCEPT
                         !.location = TemplateLocations[i],
                         !.linked = (script = "Halo3LoadingScreen"),
                         !.copy_of = i + 1,
                         !.role = "primary", !.sample = 0]]
          /\ new_slice_particles = [i \in 1..P |-> P + 1 + i]
    /\ actions = <<>>
    /\ rng \in 0..63
    /\ frame_current = 1
    /\ pc = "ready"
    /\ err = ""
    /\ sample = 0
    /\ step_offsets = <<>>
    /\ source_particles = <<>>
    /\ source_empty = 0
    /\ empty = 0
    /\ object_list = <<>>
    /\ link_index = 0
    /\ saved = <<>>

MaterialLocals == <<script, cfg, sample, step_offsets, source_particles,
                    source_empty, new_slice_particles, empty, object_list,
                    link_index, saved>>

\* The position after a stage: the stages that have run, in order.
AfterMaterials == IF pc = "ready" THEN "materials" ELSE "motion, materials"

AfterMotion == IF pc = "ready" THEN "motion" ELSE "materials, motion"

\* create_animated_materials(new_slice_particles), the ring script's,
\* before or after the location stage.
CallCreateAnimatedMaterials ==
    /\ pc \in {"ready", "motion"}
    /\ script = "GenerateAnimatedHaloRing"
    /\ Commit(create_animated_materials(Heap, new_slice_particles),
              AfterMaterials)
    /\ UNCHANGED MaterialLocals

\* create_animated_materials(new_slice_particles), the loading screen's.
CallH3CreateAnimatedMaterials ==
    /\ pc \in {"ready", "motion"}
    /\ script = "Halo3LoadingScreen"
    /\ Commit(H3_create_animated_materials(Heap, new_slice_particles),
              AfterMaterials)
    /\ UNCHANGED MaterialLocals

\* create_basic_motion_keyframes(new_slice_particles, source_emitter), the
\* ring script's, before or after the material stage.
CallCreateBasicMotionKeyframes ==
    /\ pc \in {"ready", "materials"}
    /\ script = "GenerateAnimatedHaloRing"
    /\ Commit(create_basic_motion_keyframes(Heap, new_slice_particles,
                                            source_emitter), AfterMotion)
    /\ UNCHANGED MaterialLocals

\* create_basic_motion_keyframes(new_slice_particles, source_emitter), the
\* loading screen's.
CallH3CreateBasicMotionKeyframes ==
    /\ pc \in {"ready", "materials"}
    /\ script = "Halo3LoadingScreen"
    /\ Commit(H3_create_basic_motion_keyframes(Heap, new_slice_particles,
                                               source_emitter), AfterMotion)
    /\ UNCHANGED MaterialLocals

NextMaterials ==
    \/ CallCreateAnimatedMaterials
    \/ CallH3CreateAnimatedMaterials
    \/ CallCreateBasicMotionKeyframes
    \/ CallH3CreateBasicMotionKeyframes

SpecMaterials == InitMaterials /\ [][NextMaterials]_vars

-----------------------------------------------------------------------------
(* ParticleSystemToAnimatedObjects.py.                                      *)

\* The components (w, x, y, z) of a quaternion, in sixtieths, for the
\* rotations the particles below take.
QuaternionComponents(quaternion) ==
    IF quaternion.rotation = NoRotation THEN <<60, 0, 0, 0>>
    ELSE <<0, 0, 0, 60>>

\* object.keyframe_insert("rotation_quaternion")
keyframe_insert_rotation_quaternion(h, o) ==
    LET h1 == EnsureAction(h, o)
        a == h1.objects[o].action
        q == QuaternionComponents(h1.objects[o].rotation_quaternion)
        f == h1.frame_current
    IN [h1 EXCEPT !.actions[a].fcurves =
            InsertChannelKey(
                InsertChannelKey(
                    InsertChannelKey(
                        InsertChannelKey(@, "rotation_quaternion", 0, f, q[1]),
                        "rotation_quaternion", 1, f, q[2]),
                    "rotation_quaternion", 2, f, q[3]),
                "rotation_quaternion", 3, f, q[4])]

\* object.keyframe_insert("scale")
keyframe_insert_scale(h, o) ==
    LET h1 == EnsureAction(h, o)
        a == h1.objects[o].action
        scale == h1.objects[o].scale
        f == h1.frame_current
    IN [h1 EXCEPT !.actions[a].fcurves =
            InsertChannelKey(
                InsertChannelKey(
                    InsertChannelKey(@, "scale", 0, f, scale[1]),
                    "scale", 1, f, scale[2]),
                "scale", 2, f, scale[3])]

\* ps.particles[index] as the host's simulation has it at a frame: the
\* particle drifts, turns half a turn about Z on every other frame, and
\* shrinks.
ParticleAt(index, frame) ==
    [location |-> <<60 * index, 30 * frame, 0>>,
     rotation |-> [rotation |-> IF frame % 2 = 0 THEN NoRotation
                                ELSE AxisRotation(3, 180)],
     size |-> 60 - 6 * frame]

\* create_objects_for_particles(particle_system, object): one linked
\* object per particle, appended to bpy.data.objects.
RECURSIVE create_objects_for_particles(_, _, _)
create_objects_for_particles(h, particles, index) ==
    IF index >= particles THEN h
    ELSE create_objects_for_particles(
            [h EXCEPT !.objects =
                Append(@, [NewObject("particle") EXCEPT
                              !.linked = TRUE, !.copy_of = 2,
                              !.role = "primary", !.sample = index])],
            particles, index + 1)

\* match_object_to_particle(particle, object)
match_object_to_particle(h, particle, o) ==
    [h EXCEPT !.objects[o].location = particle.location,
              !.objects[o].rotation_mode = "QUATERNION",
              !.objects[o].rotation_quaternion = particle.rotation,
              !.objects[o].scale = <<particle.size, particle.size, particle.size>>]

\* add_keyframes_to_object(object)
add_keyframes_to_object(h, o) ==
    LET h1 == IF cfg.KEYFRAME_LOCATION THEN keyframe_insert_location(h, o) ELSE h
        h2 == IF cfg.KEYFRAME_ROTATION
              THEN keyframe_insert_rotation_quaternion(h1, o) ELSE h1
    IN IF cfg.KEYFRAME_SCALE THEN keyframe_insert_scale(h2, o) ELSE h2

\* range(start_frame, end_frame) without the "+ 1".
InFrameRangeExclusive(frame, start_frame, end_frame) ==
    start_frame <= frame /\ frame < end_frame

\* frame in range(start_frame, end_frame + 1)
InFrameRange(frame, start_frame, end_frame) ==
    start_frame <= frame /\ frame < end_frame + 1

\* scene.frame_start and scene.frame_end of the runs.
FrameStarts == { 1, 2 }
FrameEnds == { 0, 1, 2, 3 }

\* The emitter (active, with the particle system) and the particle object,
\* both selected; cfg holds the three switches, the scene's frame bounds
\* and the number of particles of the system.
InitParticles ==
    /\ script = "ParticleSystemToAnimatedObjects"
    /\ \E location, rotation, scale \in BOOLEAN :
       \E start_frame \in FrameStarts : \E end_frame \in FrameEnds :
       \E n \in 0..MaxParticles :
          cfg = [KEYFRAME_LOCATION |-> location, KEYFRAME_ROTATION |-> rotation,
                 KEYFRAME_SCALE |-> scale, frame_start |-> start_frame,
                 frame_end |-> end_frame, particles |-> n]
    /\ objects = Scene(<<0, 0, 0>>, 1)
    /\ actions = <<>>
    /\ rng = 0
    /\ frame_current = 1
    /\ pc = "main"
    /\ err = ""
    /\ sample = 0
    /\ step_offsets = <<>>
    /\ source_particles = <<>>
    /\ source_empty = 0
    /\ new_slice_particles = <<>>
    /\ empty = 0
    /\ object_list = <<>>
    /\ link_index = 0
    /\ saved = <<>>

\* Lines 68-84 of main(): create_objects_for_particles, and the first
\* value of frame; sample holds frame and link_index the position in zip.
ParticlesCreateObjects ==
    /\ pc = "main"
    /\ object_list' = [i \in 1..cfg.particles |-> Len(objects) + i]
    /\ sample' = cfg.frame_start
    /\ Commit(create_objects_for_particles(Heap, cfg.particles, 0), "frame")
    /\ UNCHANGED <<script, cfg, step_offsets, source_particles, source_empty,
                   new_slice_particles, empty, link_index, saved>>

\* Line 39: bpy.context.scene.frame_set(frame)
ParticlesFrameSet ==
    /\ pc = "frame"
    /\ InFrameRange(sample, cfg.frame_start, cfg.frame_end)
    /\ link_index' = 0
    /\ Commit(frame_set(Heap, sample), "match")
    /\ UNCHANGED <<script, cfg, sample, step_offsets, source_particles,
                   source_empty, new_slice_particles, empty, object_list, saved>>

\* Lines 40-42, one pair of zip(ps.particles, object_list).
ParticlesMatchAndKeyframe ==
    /\ pc = "match"
    /\ link_index < Len(object_list)
    /\ link_index' = link_index + 1
    /\ Commit(add_keyframes_to_object(
                  match_object_to_particle(
                      Heap, ParticleAt(link_index, frame_current),
                      object_list[link_index + 1]),
                  object_list[link_index + 1]), "match")
    /\ UNCHANGED <<script, cfg, sample, step_offsets, source_particles,
                   source_empty, new_slice_particles, empty, object_list, saved>>

\* The zip is exhausted: the next frame of the range.
ParticlesNextFrame ==
    /\ pc = "match"
    /\ link_index = Len(object_list)
    /\ sample' = sample + 1
    /\ Commit(Heap, "frame")
    /\ UNCHANGED <<script, cfg, step_offsets, source_particles, source_empty,
                   new_slice_particles, empty, object_list, link_index, saved>>

\* The range is exhausted and main() returns.
ParticlesReturn ==
    /\ pc = "frame"
    /\ ~InFrameRange(sample, cfg.frame_start, cfg.frame_end)
    /\ Commit(Heap, "done")
    /\ UNCHANGED LoopLocals

NextParticles ==
    \/ ParticlesCreateObjects
    \/ ParticlesFrameSet
    \/ ParticlesMatchAndKeyframe
    \/ ParticlesNextFrame
    \/ ParticlesReturn

SpecParticles == InitParticles /\ [][NextParticles]_vars

-----------------------------------------------------------------------------
(* rotate_slice_by_angle, called on an empty of each rotation mode.        *)

RotationModes ==
    {"QUATERNION", "AXIS_ANGLE", "XYZ", "XZY", "YXZ", "YZX", "ZXY", "ZYX"}

\* The empty before the call: its three rotation fields hold earlier
\* values, all different from what the call can leave in the field of
\* another mode.
InitRotation ==
    /\ script = "RotationFunctions"
    /\ \E mode \in RotationModes : \E earlier \in {<<0, 0, 0>>, <<90, 0, 0>>} :
       \E angle_vector \in RightAngles \X RightAngles \X RightAngles :
          /\ cfg = [angle_vector |-> angle_vector]
          /\ objects = << [NewObject(EMPTY_NAME) EXCEPT
                              !.rotation_mode = mode,
                              !.rotation_euler = earlier,
                              !.rotation_quaternion =
                                  [rotation |-> AxisRotation(2, earlier[1])],
                              !.rotation_axis_angle =
                                  [rotation |-> AxisRotation(3, earlier[1])],
                              !.role = "primary"] >>
    /\ empty = 1
    /\ actions = <<>>
    /\ rng = 0
    /\ frame_current = 1
    /\ pc = "ready"
    /\ err = ""
    /\ sample = 0
    /\ step_offsets = <<>>
    /\ source_particles = <<>>
    /\ source_empty = 0
    /\ new_slice_particles = <<>>
    /\ object_list = <<>>
    /\ link_index = 0
    /\ saved = <<>>

\* rotate_slice_by_angle(empty, angle_vector); `saved` keeps the objects
\* as they were before the call.
CallRotateSliceByAngle ==
    /\ pc = "ready"
    /\ saved' = objects
    /\ Commit(rotate_slice_by_angle(Heap, empty, cfg.angle_vector),
              "rotate_slice_by_angle")
    /\ UNCHANGED <<script, cfg, sample, step_offsets, source_particles,
                   source_empty, new_slice_particles, empty, object_list,
                   link_index>>

NextRotation == CallRotateSliceByAngle

SpecRotation == InitRotation /\ [][NextRotation]_vars

-----------------------------------------------------------------------------
(* AddParticlesToEmitter.py                                                *)

\* bpy.data.objects[name]: the index of the object of that name, 0 where
\* the lookup raises KeyError.
ObjectNamed(objs, name) ==
    IF \E i \in 1..Len(objs) : objs[i].name = name
    THEN CHOOSE i \in 1..Len(objs) : objs[i].name = name
    ELSE 0

\* create_particle_at_vertex(source_particle, vertex): a new object with a
\* copy of the particle's mesh, at the vertex, linked at once.
AddParticles_create_particle_at_vertex(h, source_particle, vertex) ==
    [h EXCEPT !.objects =
        Append(@, [NewObject(h.objects[source_particle].name \o ".000") EXCEPT
                      !.vertices = h.objects[source_particle].vertices,
                      !.location = vertex,
                      !.linked = TRUE,
                      !.copy_of = source_particle,
                      !.role = "primary"])]

\* The vertex coordinates tried for the emitter's mesh.
VertexLocations == { <<0, 0, 0>>, <<60, 0, 60>>, <<0, -120, 60>> }

\* The scenes tried: each of the two named objects present or absent, the
\* emitter's mesh with 0 to MaxVertices vertices.
AddParticlesScenes ==
    { SelectSeq(<< [NewObject(PARTICLE_NAME) EXCEPT
                       !.linked = TRUE, !.location = <<60, 60, 0>>,
                       !.role = IF has_particle THEN "source" ELSE "absent"],
                   [NewObject(EMITTER_NAME) EXCEPT
                       !.linked = TRUE, !.vertices = vertices,
                       !.role = IF has_emitter THEN "source" ELSE "absent"] >>,
                LAMBDA o : o.role # "absent") :
        has_particle \in BOOLEAN, has_emitter \in BOOLEAN,
        vertices \in UNION { [1..n -> VertexLocations] : n \in 0..MaxVertices } }

InitAddParticles ==
    /\ script = "AddParticlesToEmitter"
    /\ cfg = [PARTICLE_NAME |-> PARTICLE_NAME, EMITTER_NAME |-> EMITTER_NAME]
    /\ objects \in AddParticlesScenes
    /\ saved = objects
    /\ actions = <<>>
    /\ rng = 0
    /\ frame_current = 1
    /\ pc = "main"
    /\ err = ""
    /\ sample = 0
    /\ step_offsets = <<>>
    /\ source_particles = <<>>
    /\ source_empty = 0
    /\ new_slice_particles = <<>>
    /\ empty = 0
    /\ object_list = <<>>
    /\ link_index = 0

\* Lines 42-44: "Declare Local Variables"; source_particles holds
\* source_particle, source_empty holds source_emitter, new_slice_particles
\* holds new_particles.
AddParticlesSetup ==
    /\ pc = "main"
    /\ LET source_particle == ObjectNamed(objects, PARTICLE_NAME)
           emitter == ObjectNamed(objects, EMITTER_NAME)
       IN IF source_particle = 0 \/ emitter = 0
          THEN /\ Commit(Failed(Heap, "KeyError"), "create")
               /\ UNCHANGED <<source_particles, source_empty>>
          ELSE /\ Commit(Heap, "create")
               /\ source_particles' = <<source_particle>>
               /\ source_empty' = emitter
    /\ new_slice_particles' = <<>>
    /\ link_index' = 0
    /\ UNCHANGED <<script, cfg, sample, step_offsets, empty, object_list, saved>>

\* Lines 47-48, one vertex of "Create Particles".
AddParticlesCreateParticle ==
    /\ pc = "create"
    /\ link_index < Len(objects[source_empty].vertices)
    /\ Commit(AddParticles_create_particle_at_vertex(
                  Heap, source_particles[1],
                  objects[source_empty].vertices[link_index + 1]), "create")
    /\ new_slice_particles' = Append(new_slice_particles, Len(objects) + 1)
    /\ link_index' = link_index + 1
    /\ UNCHANGED <<script, cfg, sample, step_offsets, source_particles,
                   source_empty, empty, object_list, saved>>

\* The loop of line 47 is exhausted and main() returns.
AddParticlesReturn ==
    /\ pc = "create"
    /\ link_index = Len(objects[source_empty].vertices)
    /\ Commit(Heap, "done")
    /\ UNCHANGED LoopLocals

NextAddParticles ==
    \/ AddParticlesSetup
    \/ AddParticlesCreateParticle
    \/ AddParticlesReturn

SpecAddParticles == InitAddParticles /\ [][NextAddParticles]_vars

-----------------------------------------------------------------------------
(* Vocabulary of the properties.                                           *)

IsPivot(o) == objects[o].name = EMPTY_NAME

\* The listed objects of one sample, by role (primary slice or mirror) and
\* kind (pivot or animated object).
Listed(s, role, pivot) ==
    { i \in 1..Len(object_list) :
        /\ objects[object_list[i]].sample = s
        /\ objects[object_list[i]].role = role
        /\ IsPivot(object_list[i]) = pivot }

NoObjectListedTwice ==
    \A i, j \in 1..Len(object_list) : i # j => object_list[i] # object_list[j]

\* Where a pivot's rotation puts its slice on the ring, in degrees.
AngularPosition(o) == objects[o].rotation_euler[3] % 360

FramesIncrease(kp) ==
    \A k \in 1..(Len(kp) - 1) : kp[k].co[1] < kp[k + 1].co[1]

-----------------------------------------------------------------------------
(* Properties of GenerateAnimatedHaloRing.py.                              *)

\* C1: in every state of the run, the keyframe_points of every curve of
\* every generated object are strictly increasing by frame in stored order.
C1_StoredFramesStrictlyIncreasing ==
    \A a \in 1..Len(actions) : \A c \in 1..Len(actions[a].fcurves) :
        FramesIncrease(actions[a].fcurves[c].keyframe_points)

C10_FullRingAtMaxSamples ==
    (pc = "done" /\ 2 * cfg.RING_SAMPLES = cfg.RING_SLICES) =>
        \A k \in 0..(cfg.RING_SLICES - 1) :
            Cardinality({ i \in 1..Len(object_list) :
                            /\ IsPivot(object_list[i])
                            /\ AngularPosition(object_list[i])
                                   = (k * SLICE_ANGLE) % 360 }) = 1

\* The keyframe points of curve c of the action of object o, in a heap's
\* actions.
PointsOf(acts, o, c) == acts[objects[o].action].fcurves[c].keyframe_points

\* The step of main() that applies the phase offset adds the sample's own
\* offset to the frame of every keyframe of every curve of the slice.
OffsetStepShiftsSlice ==
    (pc = "offset" /\ pc' = "ease") =>
        \A i \in 1..Len(new_slice_particles) :
            LET o == new_slice_particles[i]
            IN \A c \in 1..Len(actions[objects[o].action].fcurves) :
                /\ Len(PointsOf(actions', o, c)) = Len(PointsOf(actions, o, c))
                /\ \A k \in 1..Len(PointsOf(actions, o, c)) :
                    /\ PointsOf(actions', o, c)[k].co[1] =
                           PointsOf(actions, o, c)[k].co[1]
                               + step_offsets[sample + 1].value
                    /\ PointsOf(actions', o, c)[k].co[2] =
                           PointsOf(actions, o, c)[k].co[2]

\* Every mirror object has an action of its own whose curves equal those of
\* the object it was copied from.
MirrorCurvesAreIndependentCopies ==
    \A o \in 1..Len(objects) :
        (objects[o].role = "mirror" /\ ~IsPivot(o)) =>
            LET src == objects[o].copy_of
            IN /\ objects[o].action # objects[src].action
               /\ objects[o].action # 0
               /\ actions[objects[o].action] = actions[objects[src].action]

\* C9: the sample's phase offset is added to every keyframe of every curve
\* of every object of the sample's slice, and every mirror object carries,
\* in an action of its own, curves identical to those of the object it was
\* copied from.
C9_OffsetAppliedAndMirrorCopied ==
    [][OffsetStepShiftsSlice]_vars /\ []MirrorCurvesAreIndependentCopies

\* A finished run in which a slice with a non-zero offset has a mirror.
C9_Witness ==
    /\ pc = "done"
    /\ \E o \in 1..Len(objects) :
        /\ objects[o].role = "mirror" /\ ~IsPivot(o)
        /\ step_offsets[objects[o].sample + 1].value # 0
        /\ Len(actions[objects[o].action].fcurves) = 3

-----------------------------------------------------------------------------
(* Properties of the shifting and easing functions.                        *)

\* The frames of a point and of its two handles.
Frames(point) == <<point.co[1], point.handle_left[1], point.handle_right[1]>>

\* The value coordinates of a point and of its two handles.
Values(point) == <<point.co[2], point.handle_left[2], point.handle_right[2]>>

\* Every point of the curves with a data path in `paths` of action a has
\* moved by delta frames, point and handles alike, since `saved`, and kept
\* its values.
ShiftedBy(a, paths, delta) ==
    /\ Len(actions[a].fcurves) = Len(saved[a].fcurves)
    /\ \A c \in 1..Len(saved[a].fcurves) :
        saved[a].fcurves[c].data_path \in paths =>
            /\ Len(actions[a].fcurves[c].keyframe_points)
                   = Len(saved[a].fcurves[c].keyframe_points)
            /\ \A k \in 1..Len(saved[a].fcurves[c].keyframe_points) :
                LET new == actions[a].fcurves[c].keyframe_points[k]
                    old == saved[a].fcurves[c].keyframe_points[k]
                IN /\ Frames(new) = <<old.co[1] + delta,
                                      old.handle_left[1] + delta,
                                      old.handle_right[1] + delta>>
                   /\ Values(new) = Values(old)

RingPaths == {"location", ORB_VISIBILITY, CUBE_VISIBILITY, CUBE_BRIGHTNESS}
GPAPaths == {"location", MATERIAL_VARIABLE}

\* The delay an object's first location keyframe has moved by since `saved`.
ObservedDelta(a) ==
    actions[a].fcurves[1].keyframe_points[1].co[1]
        - saved[a].fcurves[1].keyframe_points[1].co[1]

\* C4: randomize_keyframe_delay (GenerateAnimatedHaloRing.py and
\* GenerateParticleAssembly.py) returns having added, per object, one delay
\* from [0, ASSEMBLY_RANDOM_VARIATION), 0 when the variation is 0, to the
\* frame of every keyframe of every channel of the object.
C4_OneDelayPerObjectOnEveryChannel ==
    pc \in {"randomize_keyframe_delay", "GPA_randomize_keyframe_delay"} =>
        /\ err = ""
        /\ \A a \in 1..Len(saved) :
            /\ ObservedDelta(a) >= 0
            /\ IF cfg.ASSEMBLY_RANDOM_VARIATION = 0
               THEN ObservedDelta(a) = 0
               ELSE ObservedDelta(a) < cfg.ASSEMBLY_RANDOM_VARIATION
            /\ ShiftedBy(a, IF pc = "randomize_keyframe_delay"
                            THEN RingPaths ELSE GPAPaths,
                         ObservedDelta(a))

\* C5: offset_animations with offset d and then with offset -d leaves the
\* frame of every keyframe point and of both its handles, on every curve of
\* every object of the slice, as it was before the first call.
C5_OffsetRoundTrip ==
    pc = "offset_animations_back" =>
        /\ err = ""
        /\ \A a \in 1..Len(saved) :
            /\ Len(actions[a].fcurves) = Len(saved[a].fcurves)
            /\ \A c \in 1..Len(saved[a].fcurves) :
                /\ Len(actions[a].fcurves[c].keyframe_points)
                       = Len(saved[a].fcurves[c].keyframe_points)
                /\ \A k \in 1..Len(saved[a].fcurves[c].keyframe_points) :
                    Frames(actions[a].fcurves[c].keyframe_points[k])
                        = Frames(saved[a].fcurves[c].keyframe_points[k])

\* Both calls made, with a non-zero offset, on a slice of two objects.
C5_Witness ==
    /\ pc = "offset_animations_back"
    /\ step_offsets[1].value # 0
    /\ Len(new_slice_particles) = 2
    /\ actions = saved

\* C6: every operation that shifts a curve in time (offset_animations,
\* randomize_keyframe_delay, RandomizeKeyframedLocationOffset.py) adds one
\* frame delta to each keyframe point's frame and to the frame of both its
\* handles, and leaves every value coordinate unchanged.
C6_ShiftMovesPointsAndHandlesAlike ==
    (/\ pc \in {"offset_animations", "randomize_keyframe_delay",
                "H3_randomize_keyframe_delay",
                "RandomizeKeyframedLocationOffset"}
     /\ err = "") =>
        \A a \in 1..Len(saved) :
            ShiftedBy(a, IF pc = "RandomizeKeyframedLocationOffset"
                         THEN {"location"} ELSE RingPaths,
                      ObservedDelta(a))

\* C7: remove_easing_on_start_frame sets the right handle of the first
\* point of each location curve to that point's own coordinates and changes
\* nothing else.
C7_OnlyFirstRightHandleCollapsed ==
    pc = "remove_easing_on_start_frame" =>
        /\ err = ""
        /\ Len(actions) = Len(saved)
        /\ \A a \in 1..Len(saved) :
            /\ Len(actions[a].fcurves) = Len(saved[a].fcurves)
            /\ \A c \in 1..Len(saved[a].fcurves) :
                LET new == actions[a].fcurves[c]
                    old == saved[a].fcurves[c]
                IN IF old.data_path = "location"
                   THEN /\ new.keyframe_points[1].handle_right
                               = old.keyframe_points[1].co
                        /\ new = [old EXCEPT
                                    !.keyframe_points[1].handle_right =
                                        old.keyframe_points[1].co]
                   ELSE new = old

\* The call made on an object with several location keyframes, whose first
\* right handle was away from its point, and with curves other than location.
C7_Witness ==
    /\ pc = "remove_easing_on_start_frame"
    /\ \E a \in 1..Len(saved) :
        /\ Len(saved[a].fcurves) > 3
        /\ Len(saved[a].fcurves[1].keyframe_points) > 1
        /\ saved[a].fcurves[1].keyframe_points[1].handle_right
               # saved[a].fcurves[1].keyframe_points[1].co
        /\ actions[a].fcurves[1].keyframe_points[1].handle_right
               = saved[a].fcurves[1].keyframe_points[1].co

-----------------------------------------------------------------------------
(* Properties of the ring replication, in both ring scripts.               *)

\* The pivots main() made for a sample: the slice's own (primary) or its
\* mirror's.
Pivots(s, role) ==
    { o \in 1..Len(objects) : /\ IsPivot(o)
                              /\ objects[o].role = role
                              /\ objects[o].sample = s }

\* C2: at the end of the run, every sample whose angle is strictly between
\* 0 and 180 degrees has its primary pivot rotated to that angle about the
\* ring axis and exactly one mirror pivot, turned 180 degrees about the
\* perpendicular axis and placed at 360 minus the angle; a sample at 0 or
\* at 180 degrees has no mirror; and a primary pivot is at 180 degrees only
\* when its sample's angle is 180 degrees.
C2_MirrorInsideHalfTurnNoneOnAxis ==
    pc = "done" =>
        \A s \in 0..(cfg.RING_SAMPLES - 1) :
            LET angle == SLICE_ANGLE * s
            IN /\ Cardinality(Pivots(s, "primary")) = 1
               /\ (0 < angle /\ angle < 180) =>
                    /\ \A o \in Pivots(s, "primary") :
                          objects[o].rotation_euler = <<0, 0, angle>>
                    /\ Cardinality(Pivots(s, "mirror")) = 1
                    /\ \A o \in Pivots(s, "mirror") :
                          /\ objects[o].rotation_euler[1] = 180
                          /\ AngularPosition(o) = 360 - angle
               /\ angle \in {0, 180} => Pivots(s, "mirror") = {}
               /\ \A o \in Pivots(s, "primary") :
                     AngularPosition(o) = 180 => angle = 180

-----------------------------------------------------------------------------
(* Properties of Halo3LoadingScreen.py.                                    *)

\* The value the location curves of an object hold at a frame.
KeyedLocation(o, frame) ==
    LET fc == actions[objects[o].action].fcurves
    IN [i \in 1..3 |->
           LET kp == fc[CurveIndex(fc, "location", i - 1)].keyframe_points
           IN kp[CHOOSE k \in 1..Len(kp) : kp[k].co[1] = frame].co[2]]

\* C8: when create_basic_motion_keyframes has run, the start position
\* keyframed for an object whose jitter was drawn as zero is the emitter's
\* location plus ASSEMBLY_TRAVEL_DISTANCE times the vector from the
\* emitter to the object's target (the location of the template it copies).
C8_StartIsOriginPlusScaledVector ==
    (script = "Halo3LoadingScreen" /\ pc = "materials") =>
        \A i \in 1..Len(new_slice_particles) :
            LET o == new_slice_particles[i]
                origin == objects[source_emitter].location
                target == objects[objects[o].copy_of].location
            IN objects[o].jitter = <<0, 0, 0>> =>
                 KeyedLocation(o, cfg.START_FRAME) =
                    [a \in 1..3 |->
                        origin[a] + cfg.ASSEMBLY_TRAVEL_DISTANCE
                                        * (target[a] - origin[a])]

-----------------------------------------------------------------------------
(* Properties of the jitter stages, in both ring scripts.                  *)

\* The generator after n draws.
RECURSIVE AfterDraws(_, _)
AfterDraws(r, n) == IF n = 0 THEN r ELSE AfterDraws(NextRng(r), n - 1)

\* The values the location curves of an object hold at a frame, in a
\* heap's objects and actions; <<>> if they hold no key there.
KeyedLocationIn(objs, acts, o, frame) ==
    IF objs[o].action = 0 THEN <<>>
    ELSE LET fc == acts[objs[o].action].fcurves
         IN IF \A i \in 0..2 :
                 /\ CurveIndex(fc, "location", i) # 0
                 /\ \E k \in 1..Len(fc[CurveIndex(fc, "location", i)].keyframe_points) :
                       fc[CurveIndex(fc, "location", i)].keyframe_points[k].co[1] = frame
            THEN [i \in 1..3 |->
                    LET kp == fc[CurveIndex(fc, "location", i - 1)].keyframe_points
                    IN kp[CHOOSE k \in 1..Len(kp) : kp[k].co[1] = frame].co[2]]
            ELSE <<>>

\* The frame of the start keyframe, and the start position without jitter,
\* of the script that runs.
StartFrame ==
    IF script = "Halo3LoadingScreen" THEN cfg.START_FRAME
    ELSE cfg.RING_ANIMATION_START

UnjitteredStart(o) ==
    IF script = "Halo3LoadingScreen"
    THEN H3_StartPosition(objects[objects[o].copy_of].location,
                          objects[source_emitter].location, <<0, 0, 0>>)
    ELSE StartPosition(objects[objects[o].copy_of].location,
                       objects[source_emitter].location, <<0, 0, 0>>)

\* With ASSEMBLY_START_VARIATION = 0 the start-keyframe stage draws
\* nothing, raises nothing and keys the unjittered start position.
ZeroStartVariationStep ==
    (pc = "motion" /\ cfg.ASSEMBLY_START_VARIATION = 0) =>
        /\ err' = ""
        /\ rng' = rng
        /\ \A i \in 1..Len(new_slice_particles) :
              KeyedLocationIn(objects', actions', new_slice_particles[i], StartFrame)
                  = UnjitteredStart(new_slice_particles[i])

\* With ASSEMBLY_FLIGHT_VARIATION = 0 the flight stage raises nothing and
\* draws only the frame of each object's flight keyframe.
ZeroFlightVariationStep ==
    (/\ pc = "flight"
     /\ cfg.ASSEMBLY_FLIGHT_VARIATION = 0
     /\ IntTrunc(10 * StartFrame + 4 * cfg.ASSEMBLY_ANIMATION_LENGTH, 10)
            < IntTrunc(10 * StartFrame + 6 * cfg.ASSEMBLY_ANIMATION_LENGTH, 10)) =>
        /\ err' = ""
        /\ rng' = AfterDraws(rng, Len(new_slice_particles))

\* C11: when the start variation or the flight variation is configured as
\* 0, the stage that would draw that jitter makes no jitter draw, raises
\* no error and keys the unjittered position.
C11_ZeroVariationDrawsNothing ==
    [][ZeroStartVariationStep /\ ZeroFlightVariationStep]_vars

-----------------------------------------------------------------------------
(* Properties of the geometry functions.                                   *)

\* The distance of object i of the slice from the emitter on an axis, the
\* width of get_height_factors and the height.
AxisDistance(i, a) ==
    objects[new_slice_particles[i]].location[a]
        - objects[source_emitter].location[a]

SliceWidth(i) ==
    IF Abs(AxisDistance(i, 1)) > Abs(AxisDistance(i, 2))
    THEN Abs(AxisDistance(i, 1)) ELSE Abs(AxisDistance(i, 2))

SliceHeight(i) == Abs(AxisDistance(i, 3))

\* The raw factor the text gives object i: its height over its width, the
\* width .001 Blender units where it is zero.
EpsilonFactor(i) ==
    IF SliceWidth(i) = 0 THEN <<SliceHeight(i) * 1000, 60>>
    ELSE <<SliceHeight(i), SliceWidth(i)>>

\* C12: for every slice, objects at the emitter on some or all axes and
\* slices of zero height included, neither computation raises; a zero
\* distance gives the sign +1; the normalized factors are fractions in
\* [0, 1] in the proportions of height over width, with the width .001
\* where it is zero; and a slice of zero height gets only zero factors.
C12_DegenerateGeometryNeverRaises ==
    /\ pc = "position_signs" =>
          /\ err = ""
          /\ \A i \in 1..Len(new_slice_particles) : \A a \in 1..3 :
                saved[i][a] = (IF AxisDistance(i, a) >= 0 THEN 1 ELSE -1)
    /\ pc = "get_height_factors" =>
          /\ err = ""
          /\ Len(saved) = Len(new_slice_particles)
          /\ \A i \in 1..Len(saved) :
                /\ saved[i][2] > 0
                /\ 0 <= saved[i][1] /\ saved[i][1] <= saved[i][2]
                /\ (saved[i][1] = 0) = (SliceHeight(i) = 0)
          /\ \A i, j \in 1..Len(saved) :
                saved[i][1] * saved[j][2] * EpsilonFactor(j)[1] * EpsilonFactor(i)[2]
                    = saved[j][1] * saved[i][2] * EpsilonFactor(i)[1] * EpsilonFactor(j)[2]
          /\ (\E i \in 1..Len(saved) : SliceHeight(i) > 0) =>
                \E i \in 1..Len(saved) : saved[i][1] = saved[i][2]

\* get_height_factors has returned for a slice with an object straight
\* above the emitter (zero width) and an object at the emitter itself.
C12_Witness ==
    /\ pc = "get_height_factors"
    /\ err = ""
    /\ \E i, j \in 1..Len(new_slice_particles) :
          /\ SliceWidth(i) = 0 /\ SliceHeight(i) > 0
          /\ \A a \in 1..3 : AxisDistance(j, a) = 0

-----------------------------------------------------------------------------
(* Properties of AddParticlesToEmitter.py.                                 *)

\* C13: a run in a scene without the object named "Particle" or without
\* the object named "Emitter", or whose emitter's mesh has no vertex,
\* never finishes successfully and never adds an object to the scene.
C13_MissingInputAbortsBatch ==
    (\/ ObjectNamed(saved, PARTICLE_NAME) = 0
     \/ ObjectNamed(saved, EMITTER_NAME) = 0
     \/ Len(saved[ObjectNamed(saved, EMITTER_NAME)].vertices) = 0) =>
        /\ pc # "done"
        /\ objects = saved
        /\ pc # "main" => (pc = "failed" /\ err # "")

-----------------------------------------------------------------------------
(* Properties of the slice animation offsets of GenerateAnimatedHaloRing.   *)

\* C14: once main() has computed the slice animation offsets and goes on,
\* every angle it passed to get_offset_for_slice lies in [0, 180): an angle
\* outside the domain makes the computation fail, so that no offset of
\* such an angle, real or not, is ever kept for the keyframes.
C14_OffsetAngleInDomainOrFailure ==
    (script = "GenerateAnimatedHaloRing" /\ pc \notin {"main", "failed"}) =>
        \A s \in 1..Len(step_offsets) :
            /\ OffsetAngle(s - 1) >= 0
            /\ OffsetAngle(s - 1) < 180
            /\ step_offsets[s].real

-----------------------------------------------------------------------------
(* Properties of rotate_slice_by_angle.                                     *)

\* The rotation an object's own rotation mode gives it.
RotationOf(object) ==
    IF object.rotation_mode = "QUATERNION" THEN object.rotation_quaternion.rotation
    ELSE IF object.rotation_mode = "AXIS_ANGLE" THEN object.rotation_axis_angle.rotation
    ELSE EulerRotation(Euler(object.rotation_euler, object.rotation_mode))

\* The triple turned about the fixed axes X, then Y, then Z (the host's
\* XYZ order), and about the axes carried along: X, then the new Y, then
\* the new Z (intrinsic XYZ).
FixedAxesXYZ(v) ==
    MatMul(AxisRotation(3, v[3]), MatMul(AxisRotation(2, v[2]), AxisRotation(1, v[1])))

IntrinsicXYZ(v) ==
    MatMul(AxisRotation(1, v[1]), MatMul(AxisRotation(2, v[2]), AxisRotation(3, v[3])))

\* The call left the rotation mode and the fields of the other
\* representations as they were.
OnlyOwnFieldWritten(before, after) ==
    /\ after.rotation_mode = before.rotation_mode
    /\ before.rotation_mode # "QUATERNION" =>
           after.rotation_quaternion = before.rotation_quaternion
    /\ before.rotation_mode # "AXIS_ANGLE" =>
           after.rotation_axis_angle = before.rotation_axis_angle
    /\ before.rotation_mode \in {"QUATERNION", "AXIS_ANGLE"} =>
           after.rotation_euler = before.rotation_euler

\* C15, as the specification states it: after rotate_slice_by_angle, in
\* any rotation mode, the field of the pivot's mode holds the rotation of
\* the triple read as intrinsic XYZ angles, and the mode and the other
\* fields are unchanged.
C15_WritesIntrinsicXYZRotation ==
    pc = "rotate_slice_by_angle" =>
        /\ RotationOf(objects[empty]) = IntrinsicXYZ(cfg.angle_vector)
        /\ OnlyOwnFieldWritten(saved[empty], objects[empty])

\* C15, amended: after rotate_slice_by_angle, in any rotation mode, the
\* field of the pivot's mode holds the rotation of the triple in the
\* host's XYZ order (about the fixed X axis, then Y, then Z), and the mode
\* and the other fields are unchanged.
C15_WritesHostXYZRotation ==
    pc = "rotate_slice_by_angle" =>
        /\ RotationOf(objects[empty]) = FixedAxesXYZ(cfg.angle_vector)
        /\ OnlyOwnFieldWritten(saved[empty], objects[empty])

\* An empty whose Euler order is not XYZ has been given a triple with two
\* quarter turns, which no reading of the same three numbers in its own
\* order reproduces.
C15_Witness ==
    /\ pc = "rotate_slice_by_angle"
    /\ objects[empty].rotation_mode = "ZYX"
    /\ cfg.angle_vector = <<180, 0, -90>>
    /\ objects[empty].rotation_euler # cfg.angle_vector
    /\ objects[empty].rotation_euler # saved[empty].rotation_euler

-----------------------------------------------------------------------------
(* Properties of the parenting of GenerateAnimatedHaloRing.py.              *)

\* The object is given a parent by the step: it is new with a parent, or
\* its parent is no longer the one it had.
GivenParent(o) ==
    /\ objects'[o].parent # 0
    /\ o <= Len(objects) => objects'[o].parent # objects[o].parent

\* The pose of an object in the world, location only: the parent's world
\* matrix, the parent inverse and the object's own location composed.
WorldLocation(objs, o) ==
    IF objs[o].parent = 0 THEN objs[o].location
    ELSE [a \in 1..3 |-> objs[objs[o].parent].matrix_world[a]
                           + objs[o].matrix_parent_inverse[a]
                           + objs[o].location[a]]

\* The object before the step: itself, or the particle it is a copy of.
Before(o) == IF o <= Len(objects) THEN o ELSE objects'[o].copy_of

\* C16: in every step of the ring script that gives an object (primary or
\* mirror) a parent pivot, the object's parent inverse is, after the step,
\* the inverse of that pivot's world matrix; the pivot had not been rotated
\* before the step; and the object's pose in the world is what it was
\* before the step.
C16_ParentInverseSetWithParent ==
    [][\A o \in 1..Len(objects') :
          GivenParent(o) =>
             LET p == objects'[o].parent
             IN /\ objects'[o].matrix_parent_inverse =
                       Inverted(objects'[p].matrix_world)
                /\ p <= Len(objects) =>
                       /\ objects[p].rotation_euler = <<0, 0, 0>>
                       /\ objects[p].matrix_world = objects'[p].matrix_world
                /\ WorldLocation(objects', o) = WorldLocation(objects, Before(o))]_vars

\* A finished ring in which a copy of the template that came with a parent
\* inverse of its own is parented to a rotated primary pivot, and a copy
\* of that copy to a rotated mirror pivot.
C16_Witness ==
    /\ script = "GenerateAnimatedHaloRing"
    /\ pc = "done"
    /\ \E o \in 1..Len(objects) : \E m \in 1..Len(objects) :
          /\ objects[o].copy_of = 3
          /\ objects[objects[o].copy_of].matrix_parent_inverse # Identity
          /\ objects[o].parent # 0
          /\ objects[objects[o].parent].role = "primary"
          /\ objects[objects[o].parent].rotation_euler # <<0, 0, 0>>
          /\ objects[o].matrix_parent_inverse = Identity
          /\ objects[m].copy_of = o
          /\ objects[objects[m].parent].role = "mirror"
          /\ objects[objects[m].parent].rotation_euler[1] = 180
          /\ objects[m].matrix_parent_inverse = Identity

-----------------------------------------------------------------------------
(* Properties of the registration of the objects with the scene.            *)

\* The objects the script has made for the ring: the particles and pivots
\* of the primary and of the mirror slices.
Generated(o) == objects[o].role \in {"primary", "mirror"}

\* C17: an object or pivot the script has made is linked to the scene only
\* once every slice is built (the sample loop has run RING_SAMPLES times);
\* and when the script is done every object of the output list is linked,
\* hidden, and listed once.
C17_LinkedOnlyAfterAllSlicesBuilt ==
    /\ \A o \in 1..Len(objects) :
          (Generated(o) /\ objects[o].linked) => sample = cfg.RING_SAMPLES
    /\ pc = "done" =>
          \A i \in 1..Len(object_list) :
             /\ objects[object_list[i]].linked
             /\ objects[object_list[i]].hide_viewport
             /\ \A j \in 1..Len(object_list) :
                   object_list[j] = object_list[i] => j = i

-----------------------------------------------------------------------------
(* Properties of the flight keyframe of GenerateAnimatedHaloRing.py.        *)

\* The point a stage has appended to a location curve of the object.
AppendedPoint(o, c) ==
    LET kp == PointsOf(actions', o, c) IN kp[Len(kp)]

\* C18: the flight stage completes for every assembly length of at least
\* one frame; and when it completes, the frame of the keyframe it has added
\* to each location curve lies in [S + 0.4 L, S + 0.6 L], strictly after
\* the start keyframe's frame S and strictly before the end keyframe's
\* frame S + L.
C18_FlightFrameInsideMiddleWindow ==
    [][(script = "GenerateAnimatedHaloRing" /\ pc = "flight") =>
          LET S == cfg.RING_ANIMATION_START
              L == cfg.ASSEMBLY_ANIMATION_LENGTH
          IN /\ L >= 1 => pc' = "delay"
             /\ pc' = "delay" =>
                   \A i \in 1..Len(new_slice_particles) : \A c \in 1..3 :
                      LET frame == AppendedPoint(new_slice_particles[i], c).co[1]
                      IN /\ 10 * S + 4 * L <= 10 * frame
                         /\ 10 * frame <= 10 * S + 6 * L
                         /\ S < frame
                         /\ frame < S + L]_vars

\* C19: the value the flight stage keys for an object, on each axis, is
\* the value interpolated linearly between the object's start keyframe and
\* its end keyframe at the frame drawn, plus a jitter of at most
\* ASSEMBLY_FLIGHT_VARIATION Blender units (60 sixtieths each).
C19_FlightValueIsJitteredInterpolation ==
    [][(script = "GenerateAnimatedHaloRing" /\ pc = "flight" /\ pc' = "delay") =>
          LET S == cfg.RING_ANIMATION_START
              L == cfg.ASSEMBLY_ANIMATION_LENGTH
              V == 60 * cfg.ASSEMBLY_FLIGHT_VARIATION
          IN \A i \in 1..Len(new_slice_particles) : \A c \in 1..3 :
                LET o == new_slice_particles[i]
                    start == KeyedLocationIn(objects, actions, o, S)[c]
                    end == KeyedLocationIn(objects, actions, o, S + L)[c]
                    flight == AppendedPoint(o, c).co
                IN \E jitter \in (-V)..V :
                      (flight[2] - jitter) * L =
                          start * L + (end - start) * (flight[1] - S)]_vars

-----------------------------------------------------------------------------
(* Properties of the start-easing suppression of GenerateAnimatedHaloRing.  *)

\* C20: when the delay stage, the easing stage and the start-easing
\* suppression have run on a slice, the keyframes of each location curve
\* of each of its objects whose right handle lies on the point itself are
\* exactly the keyframes of the curve's smallest frame.
C20_CollapsedHandleIsOnSmallestFrame ==
    (script = "GenerateAnimatedHaloRing" /\ pc = "parent") =>
        \A i \in 1..Len(new_slice_particles) :
            LET fc == actions[objects[new_slice_particles[i]].action].fcurves
            IN \A c \in 1..Len(fc) :
                  fc[c].data_path = "location" =>
                     \A k \in 1..Len(fc[c].keyframe_points) :
                        LET kp == fc[c].keyframe_points
                        IN (kp[k].handle_right = kp[k].co) <=>
                              (\A j \in 1..Len(kp) : kp[k].co[1] <= kp[j].co[1])

-----------------------------------------------------------------------------
(* Properties of the end keyframe.                                          *)

\* The template a generated object goes back to, through the primary
\* object a mirror object copies.
RECURSIVE TemplateOf(_)
TemplateOf(o) ==
    IF objects[o].copy_of = 0 THEN o ELSE TemplateOf(objects[o].copy_of)

\* The generated objects that carry animation: the particles, not the
\* pivots.
AnimatedObjects ==
    { o \in 1..Len(objects) : Generated(o) /\ objects[o].action # 0 }

\* The smallest frame keyed on a curve.
FirstFrame(kp) ==
    CHOOSE f \in { kp[k].co[1] : k \in 1..Len(kp) } :
        \A k \in 1..Len(kp) : f <= kp[k].co[1]

\* The assembly length of the script that runs.
AssemblyLength == cfg.ASSEMBLY_ANIMATION_LENGTH

\* C21: in every state of a run that has not failed, each location curve of
\* each animated object holds a keyframe ASSEMBLY_ANIMATION_LENGTH frames
\* after the curve's first keyframe (that is at start + length + the
\* object's delay + its sample's offset) whose value is the location of
\* the template the object goes back to: no stage changes that value.
C21_EndKeyframeKeepsTemplateLocation ==
    pc # "failed" =>
        \A o \in AnimatedObjects : \A axis \in 1..3 :
            LET fc == actions[objects[o].action].fcurves
                kp == fc[CurveIndex(fc, "location", axis - 1)].keyframe_points
            IN \E k \in 1..Len(kp) :
                  /\ kp[k].co[1] = FirstFrame(kp) + AssemblyLength
                  /\ kp[k].co[2] = objects[TemplateOf(o)].location[axis]

\* A finished run of Halo3LoadingScreen.py with a mirror object whose start
\* keyframe was moved by the horizontal bias and whose keyframes were
\* delayed.
C21_Witness ==
    /\ script = "Halo3LoadingScreen"
    /\ pc = "done"
    /\ \E o \in AnimatedObjects :
          LET fc == actions[objects[o].action].fcurves
              kp == fc[CurveIndex(fc, "location", 0)].keyframe_points
          IN /\ objects[o].role = "mirror"
             /\ Len(kp) = 3
             /\ FirstFrame(kp) > cfg.START_FRAME
             /\ KeyedLocation(o, FirstFrame(kp)) #
                    H3_StartPosition(objects[TemplateOf(o)].location,
                                     objects[source_emitter].location,
                                     objects[objects[o].copy_of].jitter)

-----------------------------------------------------------------------------
(* Properties of create_animated_materials.                                 *)

\* The keyframes of the curve of a named property of an object, as
\* <<frame, value>> pairs in stored order; none if there is no such curve.
PropertyKeys(o, name) ==
    LET fc == actions[objects[o].action].fcurves
        c == CurveIndex(fc, PropertyPath(name), 0)
    IN IF c = 0 THEN <<>>
       ELSE [k \in 1..Len(fc[c].keyframe_points) |-> fc[c].keyframe_points[k].co]

\* The largest orb offset the draw can return (0 where the script draws
\* none) and the length of the orb's fade-out.
OrbVariation ==
    IF script = "GenerateAnimatedHaloRing" THEN cfg.ORB_VISIBILITY_VARIATION ELSE 0

OrbTransition ==
    IF script = "GenerateAnimatedHaloRing"
    THEN cfg.ORB_VISIBILITY_TRANSITION_LENGTH
    ELSE cfg.CUBE_VISIBILITY_TRANSITION_LENGTH

\* C22: after create_animated_materials every object of the slice has an
\* orb visibility curve of four keyframes 0, 1, 1, 0 at start + o,
\* start + o + L / 10, start + L and start + L + orb transition, for an
\* offset o the draw can return, with strictly increasing frames; a cube
\* visibility curve of two keyframes, 0 at start + L and 1 at
\* start + L + cube transition; and a cube brightness curve of two
\* keyframes, the first at start + L + cube transition and above the second.
C22_MaterialCurvesHaveStatedShape ==
    pc \in {"materials", "motion, materials"} =>
        \A i \in 1..Len(new_slice_particles) :
            LET o == new_slice_particles[i]
                S == StartFrame
                L == cfg.ASSEMBLY_ANIMATION_LENGTH
                CV == cfg.CUBE_VISIBILITY_TRANSITION_LENGTH
                orb == PropertyKeys(o, "Orb Visibility")
                cube == PropertyKeys(o, "Cube Visibility")
                brightness == PropertyKeys(o, "Cube Brightness")
            IN /\ Len(orb) = 4
               /\ \E offset \in 0..OrbVariation :
                     orb = << <<S + offset, 0>>,
                              <<S + offset + (L \div 10), 60>>,
                              <<S + L, 60>>,
                              <<S + L + OrbTransition, 0>> >>
               /\ \A k \in 1..3 : orb[k][1] < orb[k + 1][1]
               /\ cube = << <<S + L, 0>>, <<S + L + CV, 60>> >>
               /\ Len(brightness) = 2
               /\ brightness[1][1] = S + L + CV
               /\ brightness[1][2] > brightness[2][2]

\* The ring script's function has drawn the largest orb offset for an
\* object of the slice.
C22_Witness ==
    /\ script = "GenerateAnimatedHaloRing"
    /\ pc = "motion, materials"
    /\ \E i \in 1..Len(new_slice_particles) :
          PropertyKeys(new_slice_particles[i], "Orb Visibility")[1][1] =
              cfg.RING_ANIMATION_START + cfg.ORB_VISIBILITY_VARIATION

-----------------------------------------------------------------------------
(* One curve per channel.                                                   *)

\* The objects of the slice that carry an action.
KeyedObjects ==
    { new_slice_particles[i] : i \in 1..Len(new_slice_particles) } \cap
    { o \in 1..Len(objects) : objects[o].action # 0 }

\* The location stage has run.
MotionDone == pc \in {"motion", "motion, materials", "materials, motion"}

\* The material stage has run.
MaterialsDone == pc \in {"materials", "motion, materials", "materials, motion"}

\* The number of keyframes the material stage gives a property curve.
MaterialKeyCount(data_path) ==
    IF data_path = PropertyPath("Orb Visibility") THEN 4 ELSE 2

\* C23: whichever of the location stage and the material stage runs
\* first, no object has two curves for one channel; once the location
\* stage has run the object has a curve for each of location X, Y and Z
\* holding the two location keyframes; and a property curve holds only the
\* keyframes the material stage gave it.
C23_OneCurvePerChannelInAnyOrder ==
    \A o \in KeyedObjects :
        LET fc == actions[objects[o].action].fcurves
        IN /\ \A c, d \in 1..Len(fc) :
                 (/\ fc[c].data_path = fc[d].data_path
                  /\ fc[c].array_index = fc[d].array_index) => c = d
           /\ MotionDone =>
                 \A axis \in 0..2 :
                     /\ CurveIndex(fc, "location", axis) # 0
                     /\ Len(fc[CurveIndex(fc, "location", axis)].keyframe_points) = 2
           /\ \A c \in 1..Len(fc) :
                 fc[c].data_path # "location" =>
                     /\ MaterialsDone
                     /\ Len(fc[c].keyframe_points)
                            = MaterialKeyCount(fc[c].data_path)

-----------------------------------------------------------------------------
(* The frame cursor and the keyframes inserted at it.                       *)

\* The frames keyed on a channel of an object, in stored order.
ChannelFrames(o, data_path, index) ==
    IF objects[o].action = 0 THEN <<>>
    ELSE LET fc == actions[objects[o].action].fcurves
             c == CurveIndex(fc, data_path, index)
         IN IF c = 0 THEN <<>>
            ELSE [k \in 1..Len(fc[c].keyframe_points) |->
                     fc[c].keyframe_points[k].co[1]]

\* The frames the material stage of Halo3LoadingScreen.py means to key.
IntendedMaterialFrames(name) ==
    LET S == cfg.START_FRAME
        L == cfg.ASSEMBLY_ANIMATION_LENGTH
        CV == cfg.CUBE_VISIBILITY_TRANSITION_LENGTH
        CB == cfg.CUBE_BRIGHTNESS_TRANSITION_LENGTH
    IN CASE name = "Orb Visibility" -> <<S, S + (L \div 10), S + L, S + L + CV>>
         [] name = "Cube Visibility" -> <<S + L, S + L + CV>>
         [] name = "Cube Brightness" -> <<S + L + CV, S + L + CV + CB>>

MaterialNames == {"Orb Visibility", "Cube Visibility", "Cube Brightness"}

\* A frame of the window randomize_flight_pattern draws from.
InFlightWindow(frame) ==
    /\ 10 * frame >= 10 * cfg.START_FRAME + 4 * cfg.ASSEMBLY_ANIMATION_LENGTH
    /\ 10 * frame <= 10 * cfg.START_FRAME + 6 * cfg.ASSEMBLY_ANIMATION_LENGTH

\* C24: in Halo3LoadingScreen.py every keyframe of the slice under
\* construction is recorded at the frame meant for it.  After the end and
\* start stages each location curve is keyed at START_FRAME and
\* START_FRAME + ASSEMBLY_ANIMATION_LENGTH and nowhere else, and the
\* cursor is at START_FRAME; after the material stage each property curve
\* is keyed at its own frames, and the cursor is at the last of them; the
\* horizontal bias keys no new frame and leaves the cursor at START_FRAME;
\* after the flight stage each location curve has one more key, inside
\* the flight window, and the cursor is at the last object's.
C24_KeyframesLandOnIntendedFrames ==
    (script = "Halo3LoadingScreen" /\ pc \in {"materials", "bias", "flight", "delay"}) =>
        LET S == cfg.START_FRAME
            L == cfg.ASSEMBLY_ANIMATION_LENGTH
            n == Len(new_slice_particles)
        IN /\ \A i \in 1..n : \A axis \in 0..2 :
                 LET frames == ChannelFrames(new_slice_particles[i], "location", axis)
                 IN IF pc = "delay"
                    THEN /\ Len(frames) = 3
                         /\ frames[1] = S
                         /\ InFlightWindow(frames[2])
                         /\ frames[3] = S + L
                    ELSE frames = <<S, S + L>>
           /\ \A i \in 1..n : \A name \in MaterialNames :
                 ChannelFrames(new_slice_particles[i], PropertyPath(name), 0) =
                     IF pc = "materials" THEN <<>>
                     ELSE IntendedMaterialFrames(name)
           /\ n > 0 =>
                 frame_current =
                     CASE pc = "materials" -> S
                       [] pc = "bias" ->
                            IntendedMaterialFrames("Cube Brightness")[2]
                       [] pc = "flight" -> S
                       [] pc = "delay" ->
                            ChannelFrames(new_slice_particles[n], "location", 0)[2]

\* The flight stage has keyed two objects of a slice at different frames.
C24_Witness ==
    /\ script = "Halo3LoadingScreen"
    /\ pc = "delay"
    /\ Len(new_slice_particles) >= 2
    /\ ChannelFrames(new_slice_particles[1], "location", 0)[2]
           # ChannelFrames(new_slice_particles[2], "location", 0)[2]

-----------------------------------------------------------------------------
(* Properties of ParticleSystemToAnimatedObjects.py.                        *)

\* The channels of a data path (its array indices) and whether the
\* configuration keys it.
ChannelIndices(data_path) ==
    IF data_path = "rotation_quaternion" THEN 0..3 ELSE 0..2

ChannelEnabled(data_path) ==
    CASE data_path = "location" -> cfg.KEYFRAME_LOCATION
      [] data_path = "rotation_quaternion" -> cfg.KEYFRAME_ROTATION
      [] data_path = "scale" -> cfg.KEYFRAME_SCALE

\* The value the particle of an index has on a channel at a frame.
ParticleChannelValue(index, frame, data_path, array_index) ==
    LET particle == ParticleAt(index, frame)
    IN CASE data_path = "location" -> particle.location[array_index + 1]
         [] data_path = "rotation_quaternion" ->
                QuaternionComponents(particle.rotation)[array_index + 1]
         [] data_path = "scale" -> particle.size

\* The keyframes of a channel of an object as <<frame, value>> pairs in
\* stored order.
ChannelKeys(o, data_path, array_index) ==
    IF objects[o].action = 0 THEN <<>>
    ELSE LET fc == actions[objects[o].action].fcurves
             c == CurveIndex(fc, data_path, array_index)
         IN IF c = 0 THEN <<>>
            ELSE [k \in 1..Len(fc[c].keyframe_points) |->
                     fc[c].keyframe_points[k].co]

\* The keyframes a channel of the object of an index must hold once the
\* frames start_frame..last have been handled.
ExpectedKeys(index, data_path, array_index, last) ==
    IF ChannelEnabled(data_path) /\ last >= cfg.frame_start
    THEN [k \in 1..(last - cfg.frame_start + 1) |->
             << cfg.frame_start + k - 1,
                ParticleChannelValue(index, cfg.frame_start + k - 1,
                                     data_path, array_index) >>]
    ELSE <<>>

ParticleChannels == {"location", "rotation_quaternion", "scale"}

\* C27: the conversion has one object per particle; while it handles a
\* frame the cursor is on that frame; and when it returns, each channel of
\* each object holds one keyframe for every frame from start_frame to
\* end_frame in ascending order, with the value of the particle of the
\* object's own index at that frame, if the channel is enabled, and none
\* if it is disabled or end_frame < start_frame.
C27_OneKeyframePerFramePerEnabledChannel ==
    script = "ParticleSystemToAnimatedObjects" =>
        /\ pc # "main" =>
              /\ Len(object_list) = cfg.particles
              /\ \A i, j \in 1..Len(object_list) :
                    object_list[i] = object_list[j] => i = j
        /\ pc = "match" => frame_current = sample
        /\ pc = "done" =>
              \A i \in 1..Len(object_list) : \A data_path \in ParticleChannels :
                  \A array_index \in ChannelIndices(data_path) :
                      ChannelKeys(object_list[i], data_path, array_index) =
                          ExpectedKeys(i - 1, data_path, array_index,
                                       cfg.frame_end)

\* A conversion of two particles over three frames with every channel
\* enabled has returned.
C27_Witness ==
    /\ script = "ParticleSystemToAnimatedObjects"
    /\ pc = "done"
    /\ cfg.particles >= 2
    /\ cfg.frame_end - cfg.frame_start + 1 = 3
    /\ cfg.KEYFRAME_LOCATION /\ cfg.KEYFRAME_ROTATION /\ cfg.KEYFRAME_SCALE
    /\ Len(ChannelKeys(object_list[2], "rotation_quaternion", 3)) = 3

-----------------------------------------------------------------------------
(* The phase offset of a slice and its angular position.                    *)

\* The primary pivot of the slice under construction has been rotated.
PivotRotated == script = "GenerateAnimatedHaloRing" /\ pc = "add_slice"

\* C25: when the primary pivot of a sample has been rotated, its angle
\* about Z is 360 / RING_SLICES times the sample index, and the phase
\* offset computed for that sample is the lookup's value at that same
\* angle, less the length of the start animation.
C25_OffsetAngleIsPivotAngle ==
    PivotRotated =>
        LET rotated == objects[empty].rotation_euler
            start_animation_length ==
                107 + cfg.ASSEMBLY_ANIMATION_LENGTH
                    + cfg.CUBE_VISIBILITY_TRANSITION_LENGTH
        IN /\ rotated[1] = 0 /\ rotated[2] = 0
           /\ rotated[3] * cfg.RING_SLICES = 360 * sample
           /\ step_offsets[sample + 1] =
                  Minus(get_offset_for_slice(rotated[3]), start_animation_length)

\* A pivot strictly inside the half turn and the pivot on the half turn
\* are both in place.
C25_Witness ==
    /\ PivotRotated
    /\ objects[empty].rotation_euler[3] = 180
    /\ \E o \in 1..Len(objects) :
          /\ objects[o].name = EMPTY_NAME
          /\ objects[o].role = "primary"
          /\ objects[o].rotation_euler[3] = 90

-----------------------------------------------------------------------------
(* The inputs of a generation run.                                          *)

\* The emitter and the selected templates: the objects of the scene that
\* no step of the run has created.
Inputs ==
    { o \in 1..Len(objects) :
        /\ objects[o].copy_of = 0
        /\ objects[o].role = "source"
        /\ objects[o].name \in {EMITTER_NAME, PARTICLE_NAME} }

\* The objects that use an action.
UsersOf(a) == { o \in 1..Len(objects) : objects[o].action = a }

====
